---- MODULE Spec2Model ----
(***************************************************************************)
(* Verification model of the vision-calib calibration and coordinate       *)
(* transformation engine.                                                  *)
(*                                                                         *)
(*   Spec           IntrinsicCalibrator + CornerDetector                   *)
(*                  (core/intrinsic.py, core/corner_detector.py)           *)
(*   SpecTransform  CoordinateTransformer (core/transform.py), computed    *)
(*                  in exact rational arithmetic                           *)
(*   SpecLegacy     the legacy tool's handlers (estimate_extrinsic,        *)
(*                  load_coords_to_points, generate_chessboard_coords)     *)
(*   SpecPose       pose solving: MainWindow._on_calibrate_extrinsic and   *)
(*                  ExtrinsicCalibrator.calibrate                          *)
(*   SpecBatch      batch detection and the two background workers         *)
(*   SpecGrid       one call of the grid coordinate generator              *)
(*   SpecFile       saving and loading calibration files (io/)             *)
(*   SpecApp        MainWindow: calibration result, pose solve and the     *)
(*                  coordinate conversions of the extrinsic tab            *)
(*   SpecWorkers    MainWindow: starting the background workers from the   *)
(*                  panel buttons and the toolbar, and their signals       *)
(***************************************************************************)
EXTENDS Integers, Sequences, FiniteSets, TLC

VARIABLES
    config,             \* IntrinsicCalibrator.config.checkerboard
    object_points,      \* IntrinsicCalibrator._object_points
    image_points,       \* IntrinsicCalibrator._image_points
    image_size,         \* IntrinsicCalibrator._image_size (Optional)
    detection_results,  \* IntrinsicCalibrator._detection_results
    okSinceClear,       \* history: successful detections since __init__/clear()
    last,               \* history: the last call on the calibrator and its outcome
    intrinsic,          \* CoordinateTransformer.intrinsic (and _K, _dist)
    extrinsic,          \* CoordinateTransformer.extrinsic (Optional)
    R_,                 \* CoordinateTransformer._R (unset until an extrinsic is given)
    R_inv,              \* CoordinateTransformer._R_inv
    t_,                 \* CoordinateTransformer._t
    tlast,              \* history: the last call on the transformer and its outcome
    loaded_image,       \* CameraCalibrationTool.loaded_image is not None
    detected_corners,   \* CameraCalibrationTool.detected_corners (Optional)
    generated_world_coords, \* CameraCalibrationTool.generated_world_coords
                        \* (None while the attribute does not exist)
    point_data,         \* CameraCalibrationTool.point_data
    estimated,          \* CameraCalibrationTool.estimated_rvec / estimated_tvec
    llast,              \* history: the last handler of the legacy tool and its outcome
    mw_result,          \* MainWindow._result (Optional)
    mw_corner_cache,    \* MainWindow._corner_cache.get(path) of the positioning image
    mw_marked_points,   \* MainWindow._marked_points
    mw_point_data,      \* MainWindow._point_data
    mw_extrinsic_result,\* MainWindow._extrinsic_result (Optional)
    plast,              \* history: the last pose handler of MainWindow and its outcome
    blast,              \* history: the last batch call (detect_batch / add_images)
    cw,                 \* a CornerDetectionWorker: its fields and the position of run()
    kw,                 \* a CalibrationWorker: its fields and the position of run()
    grid_call,          \* one call of generate_chessboard_coords: the entries read
                        \* and, once it has returned, what it did
    cal_result,         \* the CalibrationResult at hand to be saved (Optional)
    file,               \* the calibration file on disk (Optional): container and content
    flast,              \* history: the last save / load call and its outcome
    camera_pose,        \* the pose the camera has in front of the target: what the
                        \* pose solver finds when it succeeds
    mw_transformer,     \* MainWindow._transformer (Optional)
    mw_corner_worker,   \* MainWindow._corner_worker (Optional)
    mw_calib_worker,    \* MainWindow._calib_worker (Optional)
    mw_buttons_enabled, \* detect_btn, calibrate_btn, add_images_btn,
                        \* clear_images_btn .isEnabled()
    mw_image_count,     \* MainWindow.image_list.count()
    mw_threads,         \* the worker threads that were started and still run
    mw_signals,         \* signals the workers emitted that wait in the event loop
    mw_spawned,         \* history: number of workers constructed so far
    alast               \* history: the last conversion handler and what it used

calibVars == <<config, object_points, image_points, image_size,
               detection_results, okSinceClear, last>>

transformVars == <<intrinsic, extrinsic, R_, R_inv, t_, tlast>>

legacyVars == <<loaded_image, detected_corners, generated_world_coords,
                point_data, estimated, llast>>

poseVars == <<mw_result, mw_corner_cache, mw_marked_points, mw_point_data,
              mw_extrinsic_result, plast>>

batchVars == <<blast, cw, kw>>

gridVars == <<grid_call>>

fileVars == <<cal_result, file, flast>>

workerVars == <<mw_corner_worker, mw_calib_worker, mw_buttons_enabled,
                mw_image_count, mw_threads, mw_signals, mw_spawned>>

appVars == <<camera_pose, mw_transformer, workerVars, alast>>

vars == <<calibVars, transformVars, legacyVars, poseVars, batchVars, gridVars,
          fileVars, appVars>>

notCalib == <<transformVars, legacyVars, poseVars, batchVars, gridVars, fileVars, appVars>>
notTransform == <<calibVars, legacyVars, poseVars, batchVars, gridVars, fileVars, appVars>>
notLegacy == <<calibVars, transformVars, poseVars, batchVars, gridVars, fileVars, appVars>>
notPose == <<calibVars, transformVars, legacyVars, batchVars, gridVars, fileVars, appVars>>

-----------------------------------------------------------------------------
(* Bounds of the model *)

\* images (paths) the operator can add
NumImages == 2
\* add_image calls between two clear() calls
MaxImages == 4
\* largest number of points the detection primitive is taken to return
MaxRawCorners == 7
\* world and camera points have x in -MaxX..MaxX, y in 0..MaxY, z in 0..MaxZ;
\* target planes are Z = 0..MaxZ
MaxX == 1
MaxY == 1
MaxZ == 1
\* image width and height in pixels of the transformer's intrinsic
ImageW == 3
ImageH == 3
\* points entered by hand into a point table
MaxPoints == 3
\* widest grid / chessboard pattern entered (columns)
MaxGridX == 3
\* points marked on the live view
MaxMarked == 3
\* images handed to one batch call or one worker
MaxBatch == 3
\* largest number of columns and of rows of a generated grid
MaxCols == 3
MaxRows == 3
\* background workers MainWindow constructs
MaxWorkers == 2
\* poses the camera takes in front of the target
NumPoses == 2

(* Program constants *)
MIN_IMAGES_FOR_CALIBRATION == 3

-----------------------------------------------------------------------------
(* Optional[T]: None is the empty sequence, a value x is <<x>> *)
None == <<>>
Some(x) == <<x>>

Images == 1..NumImages

\* pixel dimensions (width, height) of each image file
ImageSizeOf(img) == IF img = 1 THEN <<4, 3>> ELSE <<8, 6>>

\* checkerboard configurations a calibrator is constructed with (rows, cols >= 2)
Configs == { [rows |-> 2, cols |-> 3] }

num_corners(cfg) == cfg.rows * cfg.cols

\* CheckerboardConfig.generate_object_points: column-fastest grid on Z = 0
generate_object_points(cfg) ==
    [k \in 1..num_corners(cfg) |->
        <<(k - 1) % cfg.cols, (k - 1) \div cfg.cols, 0>>]

-----------------------------------------------------------------------------
(* CornerDetector *)

\* what cv2.findChessboardCorners returns for an image: n ordered points
RawCorners(img, n) ==
    [k \in 1..n |-> [img |-> img, idx |-> k, refined |-> FALSE]]

\* cv2.cornerSubPix: moves every point, keeps number and order
cornerSubPix(corners) ==
    [k \in 1..Len(corners) |-> [corners[k] EXCEPT !.refined = TRUE]]

DetectionFailure(img, size, msg) ==
    [success |-> FALSE, corners |-> None, image_path |-> img,
     image_size |-> size, error_message |-> msg]

CornerCountAtLeast(cfg, corners) == Len(corners) >= num_corners(cfg)

\* the corner-count validation of detect
CornerCountOk(cfg, corners) == Len(corners) = num_corners(cfg)

\* CornerDetector.detect(image) for an image path.
\*   loaded  : ImageLoader.load returned an array
\*   found   : the primitive's success flag
\*   raw     : the primitive's corners (None or a point sequence)
detect(cfg, refine_corners, img, loaded, found, raw) ==
    IF ~loaded
    THEN DetectionFailure(img, <<0, 0>>, "Failed to load image")
    ELSE IF ~found \/ raw = None
    THEN DetectionFailure(img, ImageSizeOf(img), "No checkerboard pattern found")
    ELSE IF ~CornerCountOk(cfg, raw[1])
    THEN DetectionFailure(img, ImageSizeOf(img), "Unexpected corner count")
    ELSE [success |-> TRUE,
          corners |-> Some(IF refine_corners THEN cornerSubPix(raw[1]) ELSE raw[1]),
          image_path |-> img,
          image_size |-> ImageSizeOf(img),
          error_message |-> ""]

-----------------------------------------------------------------------------
(* IntrinsicCalibrator *)

NoCall == [op |-> "init", raised |-> "", cb |-> FALSE, progress |-> <<>>,
           solver |-> None, result |-> None, detection |-> None,
           prim |-> None, pairsBefore |-> 0]

\* IntrinsicCalibrator.__init__
CalibInit ==
    /\ config \in Configs
    /\ object_points = <<>>
    /\ image_points = <<>>
    /\ image_size = None
    /\ detection_results = <<>>
    /\ okSinceClear = 0
    /\ last = NoCall

num_valid_images(ip) == Len(ip)

can_calibrate_lenient(ip) == num_valid_images(ip) >= MIN_IMAGES_FOR_CALIBRATION - 1
can_calibrate_strict(ip) == num_valid_images(ip) > MIN_IMAGES_FOR_CALIBRATION

can_calibrate(ip) == num_valid_images(ip) >= MIN_IMAGES_FOR_CALIBRATION

AcceptsAnySizedDetection(result) == result.image_size # <<0, 0>>

\* the branch of add_image that stores the pair
AcceptsDetection(result) == result.success /\ result.corners # None

latest_image_size(size, result) == Some(result.image_size)

\* add_image: the image size is set from the first successful detection
cached_image_size(size, result) == IF size = None THEN Some(result.image_size) ELSE size

\* IntrinsicCalibrator.add_image(image)
add_image ==
    \E img \in Images, loaded \in BOOLEAN, found \in BOOLEAN,
       n \in 0..MaxRawCorners, rawNone \in BOOLEAN :
        LET raw    == IF rawNone THEN None ELSE Some(RawCorners(img, n))
            result == detect(config, TRUE, img, loaded, found, raw)
        IN  /\ Len(detection_results) < MaxImages
            /\ detection_results' = Append(detection_results, result)
            /\ IF AcceptsDetection(result)
               THEN /\ object_points' = Append(object_points,
                                               generate_object_points(config))
                    /\ image_points' = Append(image_points, result.corners)
                    /\ image_size' = cached_image_size(image_size, result)
               ELSE UNCHANGED <<object_points, image_points, image_size>>
            /\ okSinceClear' = IF result.success THEN okSinceClear + 1
                               ELSE okSinceClear
            /\ last' = [NoCall EXCEPT !.op = "add_image",
                                      !.detection = Some(result),
                                      !.prim = Some([loaded |-> loaded,
                                                     found |-> found,
                                                     raw |-> raw]),
                                      !.pairsBefore = Len(image_points)]
            /\ UNCHANGED <<config, notCalib>>

clear_keeps_image_size ==
    /\ object_points' = <<>>
    /\ image_points' = <<>>
    /\ detection_results' = <<>>
    /\ okSinceClear' = 0
    /\ last' = [NoCall EXCEPT !.op = "clear", !.pairsBefore = Len(image_points)]
    /\ UNCHANGED <<config, image_size, notCalib>>

\* IntrinsicCalibrator.clear()
clear ==
    /\ object_points' = <<>>
    /\ image_points' = <<>>
    /\ detection_results' = <<>>
    /\ image_size' = None
    /\ okSinceClear' = 0
    /\ last' = [NoCall EXCEPT !.op = "clear", !.pairsBefore = Len(image_points)]
    /\ UNCHANGED <<config, notCalib>>

\* IntrinsicCalibrator.calibrate(progress_callback): what the call does, as a
\* record of the exception raised (if any), the progress callbacks made, the
\* arguments handed to cv2.calibrateCamera (if it was reached) and the result.
\*   cb       : a progress callback was passed
\*   solverOk : cv2.calibrateCamera returned (it raises cv2.error otherwise)
calibrate(ip, op, size, cfg, cb, solverOk) ==
    LET base == [NoCall EXCEPT !.op = "calibrate", !.cb = cb,
                               !.pairsBefore = Len(ip)]
        call == [object_points |-> op, image_points |-> ip, image_size |-> size[1]]
        P(s) == IF cb THEN s ELSE <<>>
    IN  IF ~can_calibrate(ip)
        THEN [base EXCEPT !.raised = "InsufficientImagesError"]
        ELSE IF size = None
        THEN [base EXCEPT !.raised = "CornerDetectionError"]
        ELSE IF ~solverOk
        THEN [base EXCEPT !.raised = "cv2.error",
                          !.progress = P(<<0, 10>>),
                          !.solver = Some(call)]
        ELSE [base EXCEPT !.progress = P(<<0, 10, 80, 100>>),
                          !.solver = Some(call),
                          !.result = Some([image_size |-> size[1],
                                           checkerboard_config |-> cfg,
                                           num_images_used |-> num_valid_images(ip),
                                           num_errors |-> Len(op)])]

Calibrate ==
    \E cb \in BOOLEAN, solverOk \in BOOLEAN :
        /\ last' = calibrate(image_points, object_points, image_size, config,
                             cb, solverOk)
        /\ UNCHANGED <<config, object_points, image_points, image_size,
                       detection_results, okSinceClear, notCalib>>

-----------------------------------------------------------------------------
(* Arithmetic of the transformer.  A float is modelled as an exact rational  *)
(* <<n, d>> in lowest terms with d >= 0, extended with the IEEE-754 values   *)
(* numpy produces instead of raising: <<1, 0>> is +inf, <<-1, 0>> is -inf    *)
(* and <<0, 0>> is nan.                                                      *)

Abs(x) == IF x < 0 THEN -x ELSE x
Sgn(x) == IF x < 0 THEN -1 ELSE IF x > 0 THEN 1 ELSE 0

RECURSIVE GCD(_, _)
GCD(a, b) == IF b = 0 THEN a ELSE GCD(b, a % b)

Norm(n, d) ==
    IF d = 0 THEN <<Sgn(n), 0>>
    ELSE LET g == GCD(Abs(n), Abs(d))
         IN  <<(Sgn(d) * n) \div g, Abs(d) \div g>>

Q(n) == <<n, 1>>
IsFinite(a) == a[2] # 0
IsNaN(a) == a = <<0, 0>>

RNeg(a) == <<-a[1], a[2]>>
RAdd(a, b) ==
    IF IsNaN(a) \/ IsNaN(b) THEN <<0, 0>>
    ELSE IF ~IsFinite(a) /\ ~IsFinite(b)
    THEN (IF a = b THEN a ELSE <<0, 0>>)
    ELSE Norm(a[1] * b[2] + b[1] * a[2], a[2] * b[2])
RSub(a, b) == RAdd(a, RNeg(b))
RMul(a, b) == Norm(a[1] * b[1], a[2] * b[2])
\* float64 division: x / 0 is +-inf, 0 / 0 is nan (a RuntimeWarning, no exception)
RDiv(a, b) == Norm(a[1] * b[2] * Sgn(b[1]), a[2] * Abs(b[1]))

VecFinite(v) == \A i \in 1..Len(v) : IsFinite(v[i])
Dot(a, b) == RAdd(RAdd(RMul(a[1], b[1]), RMul(a[2], b[2])), RMul(a[3], b[3]))
MatVec(M, v) == <<Dot(M[1], v), Dot(M[2], v), Dot(M[3], v)>>
Transpose(M) == [i \in 1..3 |-> [j \in 1..3 |-> M[j][i]]]
VAdd(a, b) == [i \in 1..3 |-> RAdd(a[i], b[i])]
VSub(a, b) == [i \in 1..3 |-> RSub(a[i], b[i])]
VScale(k, a) == [i \in 1..3 |-> RMul(k, a[i])]
VNeg(a) == [i \in 1..3 |-> RNeg(a[i])]
IntVec(v) == [i \in 1..Len(v) |-> Q(v[i])]

-----------------------------------------------------------------------------
(* CoordinateTransformer *)

\* zero-distortion intrinsics (fx, fy, cx, cy) with their image size (w, h)
Intrinsics ==
    { [fx |-> 2, fy |-> 2, cx |-> 1, cy |-> 1, image_size |-> <<ImageW, ImageH>>],
      [fx |-> 3, fy |-> 4, cx |-> 1, cy |-> 2, image_size |-> <<ImageW, ImageH>>] }

Mat(r1, r2, r3) == <<IntVec(r1), IntVec(r2), IntVec(r3)>>

\* rotation matrices cv2.Rodrigues yields for the rotation vectors used:
\* identity, a quarter turn about Z, a quarter turn about X, and the turn
\* about X with cos = 3/5, sin = 4/5
Rotations ==
    { Mat(<<1, 0, 0>>, <<0, 1, 0>>, <<0, 0, 1>>),
      Mat(<<0, -1, 0>>, <<1, 0, 0>>, <<0, 0, 1>>),
      Mat(<<1, 0, 0>>, <<0, 0, -1>>, <<0, 1, 0>>),
      <<IntVec(<<1, 0, 0>>),
        <<Q(0), <<3, 5>>, <<-4, 5>>>>,
        <<Q(0), <<4, 5>>, <<3, 5>>>>>> }

Translations == { IntVec(<<0, 0, 5>>), IntVec(<<1, -1, 3>>) }

\* CameraExtrinsic, by its rotation_matrix property and translation_vector
Extrinsics == [R : Rotations, t : Translations]

Points3 ==
    { IntVec(<<x, y, z>>) : x \in -MaxX..MaxX, y \in 0..MaxY, z \in 0..MaxZ }
Pixels == { IntVec(<<u, v>>) : u \in 0..(ImageW - 1), v \in 0..(ImageH - 1) }
Planes == { Q(z) : z \in 0..MaxZ }

NoTransformCall ==
    [op |-> "init", raised |-> "", input |-> None, z |-> None,
     output |-> None, had_extrinsic |-> FALSE, from_world |-> None]

\* CoordinateTransformer.__init__(intrinsic, extrinsic=None)
TransformInit ==
    /\ intrinsic \in Intrinsics
    /\ extrinsic \in {None} \cup { Some(e) : e \in Extrinsics }
    /\ R_ = IF extrinsic = None THEN None ELSE Some(extrinsic[1].R)
    /\ R_inv = IF extrinsic = None THEN None ELSE Some(Transpose(extrinsic[1].R))
    /\ t_ = IF extrinsic = None THEN None ELSE Some(extrinsic[1].t)
    /\ tlast = NoTransformCall

set_extrinsic_keeps_cached_rotation ==
    \E e \in Extrinsics :
        /\ extrinsic' = Some(e)
        /\ t_' = Some(e.t)
        /\ tlast' = [NoTransformCall EXCEPT !.op = "set_extrinsic",
                                            !.input = Some(e),
                                            !.had_extrinsic = extrinsic # None]
        /\ UNCHANGED <<intrinsic, R_, R_inv, notTransform>>

\* CoordinateTransformer.set_extrinsic(extrinsic)
set_extrinsic ==
    \E e \in Extrinsics :
        /\ extrinsic' = Some(e)
        /\ R_' = Some(e.R)
        /\ R_inv' = Some(Transpose(e.R))
        /\ t_' = Some(e.t)
        /\ tlast' = [NoTransformCall EXCEPT !.op = "set_extrinsic",
                                            !.input = Some(e),
                                            !.had_extrinsic = extrinsic # None]
        /\ UNCHANGED <<intrinsic, notTransform>>

NoCheck(ext) == ""

\* CoordinateTransformer._check_extrinsic: the exception it raises, "" if none
check_extrinsic(ext) == IF ext = None THEN "ValueError" ELSE ""

\* cv2.undistortPoints(pts, K, dist) for dist = 0: (u - cx) / fx, (v - cy) / fy
pixel_to_normalized(K, pix) ==
    <<RDiv(RSub(pix[1], Q(K.cx)), Q(K.fx)), RDiv(RSub(pix[2], Q(K.cy)), Q(K.fy))>>

\* cv2.projectPoints with zero rotation and translation, dist = 0
normalized_to_pixel(K, n) ==
    <<RAdd(RMul(Q(K.fx), n[1]), Q(K.cx)), RAdd(RMul(Q(K.fy), n[2]), Q(K.cy))>>

\* result = R^T (P_camera - t)
camera_to_world_value(Rinv, t, pc) == MatVec(Rinv, VSub(pc, t))

\* result = R P_world + t
world_to_camera_value(R, t, pw) == VAdd(MatVec(R, pw), t)

RayWorld(Rinv, norm_pt) == MatVec(Rinv, <<norm_pt[1], norm_pt[2], Q(1)>>)
CameraPosWorld(Rinv, t) == VNeg(MatVec(Rinv, t))

PlaneParamInverted(z_world, cam_z, ray_z) == RDiv(ray_z, RSub(z_world, cam_z))

\* t_param = (z_world - camera_pos_world[2, 0]) / ray_world[2, 0]
PlaneParam(z_world, cam_z, ray_z) == RDiv(RSub(z_world, cam_z), ray_z)

\* the loop body of pixel_to_world: ray through the pixel cut with Z = z_world
pixel_to_world_value(K, Rinv, t, pix, z_world) ==
    LET norm_pt          == pixel_to_normalized(K, pix)
        camera_pos_world == CameraPosWorld(Rinv, t)
        ray_world        == RayWorld(Rinv, norm_pt)
        t_param          == PlaneParam(z_world, camera_pos_world[3], ray_world[3])
    IN  VAdd(camera_pos_world, VScale(t_param, ray_world))

\* cv2.projectPoints(pts, rvec, tvec, K, dist) for dist = 0: the point in the
\* camera frame, divided by its depth (OpenCV takes 1 for a depth of 0)
world_to_pixel_value(K, ext, pw) ==
    LET pc == world_to_camera_value(ext.R, ext.t, pw)
        iz == IF pc[3] = Q(0) THEN Q(1) ELSE RDiv(Q(1), pc[3])
    IN  normalized_to_pixel(K, <<RMul(pc[1], iz), RMul(pc[2], iz)>>)

\* A call of a world-dependent method: _check_extrinsic first, then the
\* computation, which reads the cached _R, _R_inv, _t (an AttributeError
\* while they are unset) or, in world_to_pixel, the extrinsic itself.
TransformCall(op, input, z, value, from) ==
    LET chk == check_extrinsic(extrinsic)
        base == [NoTransformCall EXCEPT !.op = op, !.input = Some(input),
                                        !.z = z, !.from_world = from,
                                        !.had_extrinsic = extrinsic # None]
    IN  IF chk # "" THEN [base EXCEPT !.raised = chk]
        ELSE IF extrinsic = None \/ R_ = None \/ R_inv = None \/ t_ = None
        THEN [base EXCEPT !.raised = "AttributeError"]
        ELSE [base EXCEPT !.output = Some(value)]

TransformFrame == UNCHANGED <<intrinsic, extrinsic, R_, R_inv, t_, notTransform>>

camera_to_world ==
    \E pc \in Points3 :
        /\ tlast' = TransformCall("camera_to_world", pc, None,
                                  camera_to_world_value(R_inv[1], t_[1], pc), None)
        /\ TransformFrame

world_to_camera ==
    \E pw \in Points3 :
        /\ tlast' = TransformCall("world_to_camera", pw, None,
                                  world_to_camera_value(R_[1], t_[1], pw), None)
        /\ TransformFrame

\* the pixels a caller passes: a pixel of the image, or the pixel the
\* preceding world_to_pixel call returned (then from_world is its argument)
PixelArgs ==
    { [pix |-> p, from |-> None] : p \in Pixels }
    \cup (IF tlast.op \in {"world_to_pixel", "get_pixel_uv"} /\ tlast.output # None
          THEN { [pix |-> tlast.output[1], from |-> tlast.input] }
          ELSE {})

pixel_to_world ==
    \E a \in PixelArgs, z \in Planes :
        /\ tlast' = TransformCall("pixel_to_world", a.pix, Some(z),
                        pixel_to_world_value(intrinsic, R_inv[1], t_[1], a.pix, z),
                        a.from)
        /\ TransformFrame

world_to_pixel ==
    \E pw \in Points3 :
        /\ tlast' = TransformCall("world_to_pixel", pw, None,
                        world_to_pixel_value(intrinsic, extrinsic[1], pw), None)
        /\ TransformFrame

\* get_world_xy: pixel_to_world, then (world[0], world[1])
get_world_xy ==
    \E a \in PixelArgs, z \in Planes :
        /\ tlast' = TransformCall("get_world_xy", a.pix, Some(z),
                        SubSeq(pixel_to_world_value(intrinsic, R_inv[1], t_[1],
                                                    a.pix, z), 1, 2),
                        a.from)
        /\ TransformFrame

\* get_pixel_uv: world_to_pixel, then (pixel[0], pixel[1])
get_pixel_uv ==
    \E pw \in Points3 :
        /\ tlast' = TransformCall("get_pixel_uv", pw, None,
                        world_to_pixel_value(intrinsic, extrinsic[1], pw), None)
        /\ TransformFrame

\* create_pixel_to_world_map: X_map[v, u], Y_map[v, u] over the whole image
create_pixel_to_world_map ==
    \E z \in Planes :
        LET w == intrinsic.image_size[1]
            h == intrinsic.image_size[2]
            world(u, v) == pixel_to_world_value(intrinsic, R_inv[1], t_[1],
                                                IntVec(<<u, v>>), z)
            X_map == [v \in 0..(h - 1) |-> [u \in 0..(w - 1) |-> world(u, v)[1]]]
            Y_map == [v \in 0..(h - 1) |-> [u \in 0..(w - 1) |-> world(u, v)[2]]]
        IN  /\ tlast' = TransformCall("create_pixel_to_world_map", <<w, h>>,
                                      Some(z), <<X_map, Y_map>>, None)
            /\ TransformFrame

-----------------------------------------------------------------------------
(* Batch detection: CornerDetector.detect_batch and                          *)
(* IntrinsicCalibrator.add_images.  A call is recorded by the results it     *)
(* returns and by the sequence of events it causes: the progress callbacks   *)
(* it makes and the detections it completes, in the order they happen.       *)

\* what the primitives do with one image of a batch
DetectOutcomes == {"ok", "not_found", "unreadable"}

\* detect() on the image at 0-based position i of a batch
DetectAt(cfg, i, outcome) ==
    detect(cfg, TRUE, i + 1, outcome # "unreadable", outcome = "ok",
           Some(RawCorners(i + 1, num_corners(cfg))))

\* progress_callback(current, total, message); image is the position of the
\* image the message names, -1 when it names none
ProgressEvent(current, total, message, image) ==
    [kind |-> "progress", current |-> current, total |-> total,
     message |-> message, image |-> image]

\* a detection has returned for the image at position i
DetectedEvent(i, result) ==
    [kind |-> "detected", current |-> i, total |-> 0,
     message |-> IF result.success THEN "ok" ELSE "failed", image |-> i]

\* the batches handed to detect_batch / add_images / a worker: one primitive
\* outcome per image
Batches == UNION { [1..n -> DetectOutcomes] : n \in 0..MaxBatch }

RECURSIVE detect_batch_stops_at_failure(_, _, _, _, _)
detect_batch_stops_at_failure(cfg, images, cb, i, acc) ==
    IF i = Len(images) \/ (i > 0 /\ ~acc.results[i].success)
    THEN [acc EXCEPT !.events =
             IF cb THEN Append(@, ProgressEvent(Len(images), Len(images),
                                                "Detection complete", -1))
             ELSE @]
    ELSE LET result == DetectAt(cfg, i, images[i + 1])
             announced == IF cb
                          THEN Append(acc.events,
                                  ProgressEvent(i, Len(images), "Processing", i))
                          ELSE acc.events
         IN  detect_batch_stops_at_failure(cfg, images, cb, i + 1,
                 [results |-> Append(acc.results, result),
                  events  |-> Append(announced, DetectedEvent(i, result))])

\* CornerDetector.detect_batch(images, progress_callback), from iteration i on
RECURSIVE detect_batch(_, _, _, _, _)
detect_batch(cfg, images, cb, i, acc) ==
    IF i = Len(images)
    THEN [acc EXCEPT !.events =
             IF cb THEN Append(@, ProgressEvent(Len(images), Len(images),
                                                "Detection complete", -1))
             ELSE @]
    ELSE LET result == DetectAt(cfg, i, images[i + 1])
             announced == IF cb
                          THEN Append(acc.events,
                                  ProgressEvent(i, Len(images), "Processing", i))
                          ELSE acc.events
         IN  detect_batch(cfg, images, cb, i + 1,
                 [results |-> Append(acc.results, result),
                  events  |-> Append(announced, DetectedEvent(i, result))])

\* the fields of an IntrinsicCalibrator that add_image writes
CalibratorState(op, ip, size, results) ==
    [object_points |-> op, image_points |-> ip, image_size |-> size,
     detection_results |-> results]

\* add_image on a calibrator held as a value: the result is recorded and,
\* if it is accepted, the pair is stored and the first image size is cached
AddImageTo(c, cfg, result) ==
    IF AcceptsDetection(result)
    THEN [object_points |-> Append(c.object_points, generate_object_points(cfg)),
          image_points |-> Append(c.image_points, result.corners),
          image_size |-> IF c.image_size = None THEN Some(result.image_size)
                         ELSE c.image_size,
          detection_results |-> Append(c.detection_results, result)]
    ELSE [c EXCEPT !.detection_results = Append(@, result)]

\* IntrinsicCalibrator.add_images(images, progress_callback), from iteration
\* i on; acc carries the calibrator as well
RECURSIVE add_images_loop(_, _, _, _, _)
add_images_loop(cfg, images, cb, i, acc) ==
    IF i = Len(images)
    THEN [acc EXCEPT !.events =
             IF cb THEN Append(@, ProgressEvent(Len(images), Len(images),
                                                "Processing complete", -1))
             ELSE @]
    ELSE LET result == DetectAt(cfg, i, images[i + 1])
             announced == IF cb
                          THEN Append(acc.events,
                                  ProgressEvent(i, Len(images), "Processing", i))
                          ELSE acc.events
         IN  add_images_loop(cfg, images, cb, i + 1,
                 [results |-> Append(acc.results, result),
                  events  |-> Append(announced, DetectedEvent(i, result)),
                  calibrator |-> AddImageTo(acc.calibrator, cfg, result)])

NoBatchCall ==
    [op |-> "init", images |-> <<>>, cb |-> FALSE, results |-> <<>>,
     events |-> <<>>]

\* no worker has been constructed.  observed is history: the statement at
\* which run() first read _is_cancelled as set ("" while it has not)
NoWorker ==
    [pc |-> "none", total |-> 0, i |-> 0, is_cancelled |-> FALSE,
     success_count |-> 0, signals |-> <<>>, observed |-> "",
     calibrator |-> CalibratorState(<<>>, <<>>, None, <<>>)]

\* run() reads the flag as set at the statement named
Observe(w, at) == IF w.observed = "" THEN at ELSE w.observed

BatchInit ==
    /\ blast = NoBatchCall
    /\ cw = NoWorker
    /\ kw = NoWorker

\* one component is followed at a time: the detector's batch call on its own,
\* the calibrator's batch calls, or one worker
NoWorkerBuilt == cw.pc = "none" /\ kw.pc = "none"

\* CornerDetector.detect_batch(images, progress_callback)
DetectBatch ==
    \E images \in Batches, cb \in BOOLEAN :
        LET r == detect_batch(config, images, cb, 0,
                              [results |-> <<>>, events |-> <<>>])
        IN  /\ NoWorkerBuilt /\ detection_results = <<>>
            /\ blast' = [op |-> "detect_batch", images |-> images, cb |-> cb,
                         results |-> r.results, events |-> r.events]
            /\ UNCHANGED <<calibVars, cw, kw, transformVars, legacyVars, poseVars, gridVars, fileVars, appVars>>

\* IntrinsicCalibrator.add_images(images, progress_callback)
add_images ==
    \E images \in Batches, cb \in BOOLEAN :
        LET r == add_images_loop(config, images, cb, 0,
                    [results |-> <<>>, events |-> <<>>,
                     calibrator |-> CalibratorState(object_points, image_points,
                                        image_size, detection_results)])
        IN  /\ NoWorkerBuilt
            /\ Len(detection_results) + Len(images) <= MaxImages
            /\ object_points' = r.calibrator.object_points
            /\ image_points' = r.calibrator.image_points
            /\ image_size' = r.calibrator.image_size
            /\ detection_results' = r.calibrator.detection_results
            /\ okSinceClear' = okSinceClear
                  + Len(SelectSeq(r.results, LAMBDA x : x.success))
            /\ blast' = [op |-> "add_images", images |-> images, cb |-> cb,
                         results |-> r.results, events |-> r.events]
            /\ UNCHANGED <<config, last, cw, kw, transformVars, legacyVars, poseVars, gridVars, fileVars, appVars>>

-----------------------------------------------------------------------------
(* CornerDetectionWorker: run() is followed statement by statement, so that  *)
(* cancel(), called from the GUI thread, falls between any two of them.      *)
(*   pc: "new" constructed, "loop" at the head of the for loop, "detect"     *)
(*   inside detector.detect(path), "after" behind the loop, "done" returned  *)

SignalEvent(kind, current, total, message) ==
    [kind |-> kind, current |-> current, total |-> total,
     message |-> message, image |-> -1]

\* CornerDetectionWorker.__init__(image_paths, checkerboard_config)
cw_init ==
    \E n \in 0..MaxBatch :
        /\ NoWorkerBuilt /\ blast = NoBatchCall /\ detection_results = <<>>
        /\ cw' = [NoWorker EXCEPT !.pc = "new", !.total = n]
        /\ UNCHANGED <<calibVars, blast, kw, transformVars, legacyVars, poseVars, gridVars, fileVars, appVars>>

\* CornerDetectionWorker.cancel()
cw_cancel ==
    /\ cw.pc # "none"
    /\ cw' = [cw EXCEPT !.is_cancelled = TRUE]
    /\ UNCHANGED <<calibVars, blast, kw, transformVars, legacyVars, poseVars, gridVars, fileVars, appVars>>

\* QThread.start(): run() begins
cw_start ==
    /\ cw.pc = "new"
    /\ cw' = [cw EXCEPT !.pc = "loop"]
    /\ UNCHANGED <<calibVars, blast, kw, transformVars, legacyVars, poseVars, gridVars, fileVars, appVars>>

\* the loop head of CornerDetectionWorker.run: the loop ends, or the flag is
\* read and either breaks the loop or progress is emitted and detect() entered
cw_loop_head(w) ==
    IF w.i = w.total
    THEN [w EXCEPT !.pc = "after"]
    ELSE IF w.is_cancelled
    THEN [w EXCEPT !.pc = "after", !.observed = Observe(w, "loop")]
    ELSE [w EXCEPT !.pc = "detect",
                   !.signals = Append(@, ProgressEvent(w.i, w.total, "detecting", w.i))]

cw_run_next ==
    /\ cw.pc = "loop"
    /\ cw' = cw_loop_head(cw)
    /\ UNCHANGED <<calibVars, blast, kw, transformVars, legacyVars, poseVars, gridVars, fileVars, appVars>>

\* detector.detect(path) returns; the result is counted and emitted
cw_run_detect ==
    \E outcome \in DetectOutcomes :
        LET result == DetectAt(config, cw.i, outcome)
        IN  /\ cw.pc = "detect"
            /\ cw' = [cw EXCEPT
                  !.pc = "loop", !.i = @ + 1,
                  !.success_count = IF result.success THEN @ + 1 ELSE @,
                  !.signals = @ \o <<DetectedEvent(cw.i, result),
                                     SignalEvent("single_result", cw.i, cw.total,
                                        IF result.success THEN "ok" ELSE "failed")>>]
            /\ UNCHANGED <<calibVars, blast, kw, transformVars, legacyVars, poseVars, gridVars, fileVars, appVars>>

cw_after_loop_without_report(w) ==
    [w EXCEPT !.pc = "done",
              !.signals = Append(@, SignalEvent("finished", w.success_count, w.total, ""))]

\* behind the loop: the closing progress report and the finished signal
cw_after_loop(w) ==
    [w EXCEPT !.pc = "done",
              !.signals = @ \o <<ProgressEvent(w.total, w.total, "complete", -1),
                                 SignalEvent("finished", w.success_count, w.total, "")>>]

cw_run_finish ==
    /\ cw.pc = "after"
    /\ cw' = cw_after_loop(cw)
    /\ UNCHANGED <<calibVars, blast, kw, transformVars, legacyVars, poseVars, gridVars, fileVars, appVars>>

-----------------------------------------------------------------------------
(* CalibrationWorker: run() statement by statement, with the calibrator it   *)
(* builds held in kw.calibrator.                                             *)
(*   pc: "new", "loop" head of the loading loop, "add" inside add_image,     *)
(*   "check" the cancel test behind the loop, "gate" the can_calibrate test, *)
(*   "cb0" "cb10" "cb80" "cb100" the progress callbacks of calibrate(),      *)
(*   "solver" the call of cv2.calibrateCamera, "emit" the last cancel test,  *)
(*   "done" returned                                                         *)

kwFrame == UNCHANGED <<calibVars, blast, cw, transformVars, legacyVars, poseVars, gridVars, fileVars, appVars>>

\* CalibrationWorker.__init__(image_paths, calibration_config)
kw_init ==
    \E n \in 0..MaxBatch :
        /\ NoWorkerBuilt /\ blast = NoBatchCall /\ detection_results = <<>>
        /\ kw' = [NoWorker EXCEPT !.pc = "new", !.total = n]
        /\ kwFrame

\* CalibrationWorker.cancel()
kw_cancel ==
    /\ kw.pc # "none"
    /\ kw' = [kw EXCEPT !.is_cancelled = TRUE]
    /\ kwFrame

\* QThread.start(): run() begins and builds its IntrinsicCalibrator
kw_start ==
    /\ kw.pc = "new"
    /\ kw' = [kw EXCEPT !.pc = "loop"]
    /\ kwFrame

\* the head of the loading loop: the loop ends, or the flag is read and run()
\* either returns or emits progress and enters add_image
kw_loop_head(w) ==
    IF w.i = w.total
    THEN [w EXCEPT !.pc = "check"]
    ELSE IF w.is_cancelled
    THEN [w EXCEPT !.pc = "done", !.observed = Observe(w, "loop")]
    ELSE [w EXCEPT !.pc = "add",
                   !.signals = Append(@, ProgressEvent(w.i, w.total + 1, "loading", w.i))]

kw_run_next ==
    /\ kw.pc = "loop"
    /\ kw' = kw_loop_head(kw)
    /\ kwFrame

\* calibrator.add_image(path) returns
kw_run_add_image ==
    \E outcome \in DetectOutcomes :
        LET result == DetectAt(config, kw.i, outcome)
        IN  /\ kw.pc = "add"
            /\ kw' = [kw EXCEPT
                  !.pc = "loop", !.i = @ + 1,
                  !.success_count = IF result.success THEN @ + 1 ELSE @,
                  !.calibrator = AddImageTo(@, config, result),
                  !.signals = Append(@, DetectedEvent(kw.i, result))]
            /\ kwFrame

kw_cancel_check_without_return(w) ==
    [w EXCEPT !.pc = "gate",
              !.observed = IF w.is_cancelled THEN Observe(w, "check") ELSE @]

\* `if self._is_cancelled: return` behind the loop
kw_cancel_check(w) ==
    IF w.is_cancelled
    THEN [w EXCEPT !.pc = "done", !.observed = Observe(w, "check")]
    ELSE [w EXCEPT !.pc = "gate"]

kw_run_check ==
    /\ kw.pc = "check"
    /\ kw' = kw_cancel_check(kw)
    /\ kwFrame

\* the can_calibrate test of run(); when it passes, progress is emitted and
\* calibrate() is entered, whose own two tests then pass as well
kw_run_gate ==
    /\ kw.pc = "gate"
    /\ kw' = IF ~can_calibrate(kw.calibrator.image_points)
             THEN [kw EXCEPT !.pc = "done",
                      !.signals = Append(@, SignalEvent("error", 0, 0,
                                                        "not enough valid images"))]
             ELSE [kw EXCEPT !.pc = "cb0",
                      !.signals = Append(@, ProgressEvent(kw.total, kw.total + 1,
                                                          "computing", -1))]
    /\ kwFrame

\* the positions of calibrate() in order, and the percentage each callback reports
NextPc(pc) ==
    CASE pc = "cb0" -> "cb10" [] pc = "cb10" -> "solver"
      [] pc = "cb80" -> "cb100" [] pc = "cb100" -> "emit"

Percent(pc) ==
    CASE pc = "cb0" -> 0 [] pc = "cb10" -> 10 [] pc = "cb80" -> 80 [] pc = "cb100" -> 100

\* progress_callback of run(): forwards the report unless the flag is set
kw_progress_callback(w) ==
    IF w.is_cancelled
    THEN [w EXCEPT !.pc = NextPc(w.pc), !.observed = Observe(w, "callback")]
    ELSE [w EXCEPT !.pc = NextPc(w.pc),
                   !.signals = Append(@, ProgressEvent(Percent(w.pc), 100,
                                                       "calibrate", -1))]

kw_calibrate_progress ==
    /\ kw.pc \in {"cb0", "cb10", "cb80", "cb100"}
    /\ kw' = kw_progress_callback(kw)
    /\ kwFrame

\* cv2.calibrateCamera is called; it returns, or raises and run() emits error
kw_calibrate_solver ==
    \E solverOk \in BOOLEAN :
        /\ kw.pc = "solver"
        /\ kw' = IF solverOk
                 THEN [kw EXCEPT !.pc = "cb80",
                          !.signals = Append(@, SignalEvent("solver", 0, 0, "returned"))]
                 ELSE [kw EXCEPT !.pc = "done",
                          !.signals = @ \o <<SignalEvent("solver", 0, 0, "raised"),
                                             SignalEvent("error", 0, 0, "cv2.error")>>]
        /\ kwFrame

\* `if not self._is_cancelled: self.finished.emit(result)`
kw_emit_result(w) ==
    IF w.is_cancelled
    THEN [w EXCEPT !.pc = "done", !.observed = Observe(w, "emit")]
    ELSE [w EXCEPT !.pc = "done",
                   !.signals = Append(@, SignalEvent("finished",
                                     num_valid_images(w.calibrator.image_points),
                                     w.total, "result"))]

kw_run_emit ==
    /\ kw.pc = "emit"
    /\ kw' = kw_emit_result(kw)
    /\ kwFrame

BatchIdle == BatchInit

-----------------------------------------------------------------------------
(* Pose solving.  A call of cv2.solvePnP is recorded by its arguments:       *)
(* [object_points, image_points, flags].  Texts that the code searches are   *)
(* sequences of characters.                                                  *)

SolverCall(object_pts, image_pts, flags) ==
    [object_points |-> object_pts, image_points |-> image_pts, flags |-> flags]

\* text[i .. i + Len(pat) - 1] = pat for some i: Python's `pat in text`
Contains(text, pat) ==
    \E i \in 1..(Len(text) - Len(pat) + 1) :
        \A k \in 1..Len(pat) : text[i + k - 1] = pat[k]

PnP_ == <<"P", "n", "P", "_">>
KeyText(name) == <<"(">> \o PnP_ \o name \o <<")">>

\* the keys of the six algorithm families, as the combo boxes spell them
Families == {"ITERATIVE", "EPNP", "P3P", "AP3P", "IPPE", "IPPE_SQUARE"}

FamilyChars(f) ==
    CASE f = "ITERATIVE"   -> <<"I", "T", "E", "R", "A", "T", "I", "V", "E">>
      [] f = "EPNP"        -> <<"E", "P", "N", "P">>
      [] f = "P3P"         -> <<"P", "3", "P">>
      [] f = "AP3P"        -> <<"A", "P", "3", "P">>
      [] f = "IPPE"        -> <<"I", "P", "P", "E">>
      [] f = "IPPE_SQUARE" -> <<"I", "P", "P", "E", "_", "S", "Q", "U", "A", "R", "E">>

\* the cv2.SOLVEPNP_* constant of a family
SolvePnPFlag(f) ==
    CASE f = "ITERATIVE"   -> "SOLVEPNP_ITERATIVE"
      [] f = "EPNP"        -> "SOLVEPNP_EPNP"
      [] f = "P3P"         -> "SOLVEPNP_P3P"
      [] f = "AP3P"        -> "SOLVEPNP_AP3P"
      [] f = "IPPE"        -> "SOLVEPNP_IPPE"
      [] f = "IPPE_SQUARE" -> "SOLVEPNP_IPPE_SQUARE"

-----------------------------------------------------------------------------
(* The legacy tool, CameraCalibrationTool *)

\* algorithm_combo values: "<label> (PnP_<FAMILY>)"
AlgorithmComboText(f) == KeyText(FamilyChars(f))

\* the if/elif chain of estimate_extrinsic over the combo text
LegacyFlag(algo_text) ==
    LET has(f) == Contains(algo_text, PnP_ \o FamilyChars(f))
    IN  IF has("ITERATIVE") THEN "SOLVEPNP_ITERATIVE"
        ELSE IF has("EPNP") THEN "SOLVEPNP_EPNP"
        ELSE IF has("P3P") THEN "SOLVEPNP_P3P"
        ELSE IF has("AP3P") THEN "SOLVEPNP_AP3P"
        ELSE IF has("IPPE") THEN "SOLVEPNP_IPPE"
        ELSE IF has("IPPE_SQUARE") THEN "SOLVEPNP_IPPE_SQUARE"
        ELSE "SOLVEPNP_ITERATIVE"

\* grid sizes (grid_x, grid_y) and chessboard pattern sizes the operator enters
GridSizes == { <<2, 2>>, <<MaxGridX, 2>> }

Directions == {"image_x_positive", "image_x_negative",
               "image_y_positive", "image_y_negative"}

get_grid_direction_coeff(direction) ==
    CASE direction = "image_x_positive" -> <<1, 0>>
      [] direction = "image_x_negative" -> <<-1, 0>>
      [] direction = "image_y_positive" -> <<0, 1>>
      [] direction = "image_y_negative" -> <<0, -1>>
      [] OTHER -> <<1, 0>>

\* Python's // and % on integers (the sign of % follows the divisor)
PyFloorDiv(a, n) == IF n > 0 THEN a \div n ELSE (-a) \div (-n)
PyMod(a, n) == a - n * PyFloorDiv(a, n)

\* the test abs(det) < 1e-10; det is an integer
axes_parallel_unchecked(det) == FALSE
axes_parallel(det) == det = 0

\* inv_11, inv_12, inv_21, inv_22.  det is +1 or -1 when it is not 0, so the
\* true divisions are exact.
inverse_transposed(ux, uy, det) == <<uy[2] \div det, (-ux[2]) \div det, (-uy[1]) \div det, ux[1] \div det>>
inverse_matrix(ux, uy, det) == <<uy[2] \div det, (-uy[1]) \div det, (-ux[2]) \div det, ux[1] \div det>>

\* the body of the double loop for grid point (i, j).  acc holds the list
\* built so far, the error shown and the divisors used so far.  A division
\* by zero raises ZeroDivisionError, which the handler's except clause reports.
grid_point(acc, i, j, point_id, g) ==
    LET grid_offset_i == i - g.robot_grid_i
        grid_offset_j == j - g.robot_grid_j
        det == g.ux[1] * g.uy[2] - g.uy[1] * g.ux[2]
    IN  IF axes_parallel(det)
        THEN [acc EXCEPT !.error = "axes parallel"]
        ELSE IF det = 0
        THEN [acc EXCEPT !.error = "generation failed", !.divided_by = @ \cup {det}]
        ELSE LET inv == inverse_matrix(g.ux, g.uy, det)
                 robot_x_offset == inv[1] * grid_offset_i + inv[2] * grid_offset_j
                 robot_y_offset == inv[3] * grid_offset_i + inv[4] * grid_offset_j
                 world_x == g.origin[1] + robot_x_offset * g.spacing
                 world_y == g.origin[2] + robot_y_offset * g.spacing
             IN  [acc EXCEPT !.coords = Append(@, <<point_id, world_x, world_y>>),
                             !.divided_by = @ \cup {det}]

RECURSIVE grid_loop_column_major(_, _, _, _, _)
grid_loop_column_major(acc, i, j, point_id, g) ==
    IF i >= g.grid_x THEN acc
    ELSE IF j >= g.grid_y THEN grid_loop_column_major(acc, i + 1, 0, point_id, g)
    ELSE LET next == grid_point(acc, i, j, point_id, g)
         IN  IF next.error # "" THEN next
             ELSE grid_loop_column_major(next, i, j + 1, point_id + 1, g)

\* for j in range(grid_y): for i in range(grid_x): ... point_id += 1
RECURSIVE grid_loop(_, _, _, _, _)
grid_loop(acc, i, j, point_id, g) ==
    IF j >= g.grid_y THEN acc
    ELSE IF i >= g.grid_x THEN grid_loop(acc, 0, j + 1, point_id, g)
    ELSE LET next == grid_point(acc, i, j, point_id, g)
         IN  IF next.error # "" THEN next
             ELSE grid_loop(next, i + 1, j, point_id + 1, g)

\* generate_chessboard_coords: the value generated_world_coords has when the
\* handler returns (prev if the origin index is refused), the error box
\* shown ("" if none), the number of entries appended and the divisors used.
\* An empty list makes the summary's coords_array[:, 1] raise IndexError.
generate_chessboard_coords(prev, origin, grid, spacing, robot_point, robot_x_dir, robot_y_dir) ==
    LET grid_x == grid[1]
        grid_y == grid[2]
        total_points == grid_x * grid_y
    IN  IF robot_point < 1 \/ robot_point > total_points
        THEN [coords |-> prev, error |-> "origin out of range",
              emitted |-> 0, divided_by |-> {}]
        ELSE LET robot_idx == robot_point - 1
                 g == [grid_x |-> grid_x, grid_y |-> grid_y,
                       robot_grid_i |-> PyMod(robot_idx, grid_x),
                       robot_grid_j |-> PyFloorDiv(robot_idx, grid_x),
                       ux |-> get_grid_direction_coeff(robot_x_dir),
                       uy |-> get_grid_direction_coeff(robot_y_dir),
                       origin |-> origin, spacing |-> spacing]
                 built == grid_loop([coords |-> <<>>, error |-> "", divided_by |-> {}],
                                    0, 0, 1, g)
             IN  [coords |-> Some(built.coords),
                  error |-> IF built.error # "" THEN built.error
                            ELSE IF built.coords = <<>> THEN "generation failed"
                            ELSE "",
                  emitted |-> Len(built.coords),
                  divided_by |-> built.divided_by]

NoLegacyCall ==
    [op |-> "init", message |-> "", algo |-> "", n |-> 0, solver |-> None,
     corners |-> 0, coords |-> 0]

LegacyInit ==
    /\ loaded_image = FALSE
    /\ detected_corners = None
    /\ generated_world_coords = None
    /\ point_data = <<>>
    /\ estimated = None
    /\ llast = NoLegacyCall

\* import_image: a readable file resets detected_corners
import_image ==
    \E readable \in BOOLEAN :
        /\ loaded_image' = (loaded_image \/ readable)
        /\ detected_corners' = IF readable THEN None ELSE detected_corners
        /\ llast' = [NoLegacyCall EXCEPT !.op = "import_image"]
        /\ UNCHANGED <<generated_world_coords, point_data, estimated, notLegacy>>

\* detect_corners: keeps every corner the primitive returns when it reports ret
legacy_detect_corners ==
    \E pattern \in GridSizes, ret \in BOOLEAN :
        /\ detected_corners' =
              IF loaded_image /\ ret
              THEN Some([k \in 1..(pattern[1] * pattern[2]) |-> k])
              ELSE detected_corners
        /\ llast' = [NoLegacyCall EXCEPT !.op = "detect_corners"]
        /\ UNCHANGED <<loaded_image, generated_world_coords, point_data,
                       estimated, notLegacy>>

generate ==
    \E grid \in GridSizes, robot_point \in 0..1,
       robot_x_dir \in {"image_y_positive", "image_x_positive"},
       robot_y_dir \in {"image_x_positive", "image_y_negative"} :
        LET r == generate_chessboard_coords(generated_world_coords, <<0, 0>>,
                     grid, 1, robot_point, robot_x_dir, robot_y_dir)
        IN  /\ generated_world_coords' = r.coords
            /\ llast' = [NoLegacyCall EXCEPT !.op = "generate_chessboard_coords",
                                             !.message = r.error]
            /\ UNCHANGED <<loaded_image, detected_corners, point_data,
                           estimated, notLegacy>>

\* the pairs load_coords_to_points forms: zip(generated_world_coords, corners)
ZipCoords(coords, corners) ==
    LET m == IF Len(coords) < Len(corners) THEN Len(coords) ELSE Len(corners)
    IN  [k \in 1..m |-> [id |-> coords[k][1], image |-> corners[k],
                         world |-> <<coords[k][2], coords[k][3]>>]]

\* the length test of load_coords_to_points
CountsMatch(coords, corners) == Len(coords) = Len(corners)

\* load_coords_to_points: point_data afterwards, and the message shown
load_coords(pd, gen, corners) ==
    IF gen = None \/ gen[1] = <<>>
    THEN [point_data |-> pd, message |-> "no coordinates"]
    ELSE IF corners = None
    THEN [point_data |-> pd, message |-> "no corners"]
    ELSE IF ~CountsMatch(gen[1], corners[1])
    THEN [point_data |-> pd, message |-> "count mismatch"]
    ELSE [point_data |-> ZipCoords(gen[1], corners[1]), message |-> "loaded"]

load_coords_to_points ==
    LET r == load_coords(point_data, generated_world_coords, detected_corners)
    IN  /\ point_data' = r.point_data
        /\ llast' = [NoLegacyCall EXCEPT
                        !.op = "load_coords_to_points", !.message = r.message,
                        !.corners = IF detected_corners = None THEN 0
                                    ELSE Len(detected_corners[1]),
                        !.coords = IF generated_world_coords = None THEN 0
                                   ELSE Len(generated_world_coords[1])]
        /\ UNCHANGED <<loaded_image, detected_corners, generated_world_coords,
                       estimated, notLegacy>>

\* add_point: refused when the id exists
add_point ==
    \E point_id \in {1, Len(point_data) + 1} :
        /\ Len(point_data) < MaxPoints
        /\ point_data' =
              IF \E k \in 1..Len(point_data) : point_data[k].id = point_id
              THEN point_data
              ELSE Append(point_data, [id |-> point_id, image |-> point_id,
                                       world |-> <<point_id, 0>>])
        /\ llast' = [NoLegacyCall EXCEPT !.op = "add_point"]
        /\ UNCHANGED <<loaded_image, detected_corners, generated_world_coords,
                       estimated, notLegacy>>

clear_points ==
    /\ point_data' = <<>>
    /\ llast' = [NoLegacyCall EXCEPT !.op = "clear_points"]
    /\ UNCHANGED <<loaded_image, detected_corners, generated_world_coords,
                   estimated, notLegacy>>

\* the point-count gate of estimate_extrinsic
LegacyEnoughPoints(n, algo_text) == n >= 4

ObjectPointsOf(pd) == [k \in 1..Len(pd) |-> <<pd[k].world[1], pd[k].world[2], 0>>]
ImagePointsOf(pd) == [k \in 1..Len(pd) |-> pd[k].image]

\* estimate_extrinsic
estimate_extrinsic ==
    \E f \in Families, success \in BOOLEAN :
        LET algo_text == AlgorithmComboText(f)
            base == [NoLegacyCall EXCEPT !.op = "estimate_extrinsic",
                                         !.algo = f, !.n = Len(point_data)]
            flag == LegacyFlag(algo_text)
            call == SolverCall(ObjectPointsOf(point_data),
                               ImagePointsOf(point_data), flag)
        IN  IF ~LegacyEnoughPoints(Len(point_data), algo_text)
            THEN /\ llast' = [base EXCEPT !.message = "at least 4 points"]
                 /\ UNCHANGED <<loaded_image, detected_corners, point_data,
                                generated_world_coords, estimated, notLegacy>>
            ELSE /\ llast' = [base EXCEPT !.solver = Some(call),
                                 !.message = IF success THEN "done" ELSE "failed"]
                 /\ estimated' = IF success
                                 THEN Some([flags |-> flag, n |-> Len(point_data)])
                                 ELSE estimated
                 /\ UNCHANGED <<loaded_image, detected_corners, point_data,
                                generated_world_coords, notLegacy>>

LegacyIdle == LegacyInit

-----------------------------------------------------------------------------
(* One call of the grid coordinate generator, over all the entries *)

\* grid_x_entry, grid_y_entry: any integer can be typed
GridDims == {<<-1, -1>>, <<0, 2>>} \cup ((1..MaxCols) \X (1..MaxRows))

\* origin_x_entry / origin_y_entry with spacing_entry
OriginsAndSpacings == { [origin |-> <<0, 0>>, spacing |-> 10],
                        [origin |-> <<5, -3>>, spacing |-> 1] }

NoGridCall ==
    [returned |-> FALSE, grid |-> <<0, 0>>, robot_point |-> 0, origin |-> <<0, 0>>,
     spacing |-> 0, robot_x_dir |-> "", robot_y_dir |-> "",
     error |-> "", emitted |-> 0, divided_by |-> {}]

\* the entries as the operator has filled them in
GridEntries ==
    { [NoGridCall EXCEPT !.grid = grid, !.robot_point = robot_point,
                         !.origin = os.origin, !.spacing = os.spacing,
                         !.robot_x_dir = robot_x_dir, !.robot_y_dir = robot_y_dir] :
        grid \in GridDims, robot_point \in 0..(MaxCols * MaxRows + 1),
        os \in OriginsAndSpacings,
        robot_x_dir \in Directions, robot_y_dir \in Directions }

\* the detector output at hand when the entries are filled in: none yet, or
\* the corners of one detected pattern, in the detector's order
CornersAtHand ==
    {None} \cup { Some([k \in 1..(pattern[1] * pattern[2]) |-> k]) : pattern \in GridSizes }

GridInit ==
    /\ grid_call \in GridEntries
    /\ detected_corners \in CornersAtHand
    /\ loaded_image = (detected_corners # None)
    /\ generated_world_coords = None
    /\ point_data = <<>>
    /\ estimated = None
    /\ llast = NoLegacyCall

GridIdle == grid_call = NoGridCall

\* the button handler, run once on the entries
generate_grid ==
    /\ ~grid_call.returned
    /\ LET r == generate_chessboard_coords(generated_world_coords,
                    grid_call.origin, grid_call.grid, grid_call.spacing,
                    grid_call.robot_point, grid_call.robot_x_dir,
                    grid_call.robot_y_dir)
       IN  /\ generated_world_coords' = r.coords
           /\ grid_call' = [grid_call EXCEPT !.returned = TRUE, !.error = r.error,
                               !.emitted = r.emitted, !.divided_by = r.divided_by]
           /\ llast' = [NoLegacyCall EXCEPT !.op = "generate_chessboard_coords",
                                            !.message = r.error]
    /\ UNCHANGED <<loaded_image, detected_corners, point_data, estimated,
                   calibVars, transformVars, poseVars, batchVars, fileVars, appVars>>

-----------------------------------------------------------------------------
(* ExtrinsicCalibrator and the pose handlers of MainWindow *)

\* cv2.solvePnP: sequences of different lengths are refused with cv2.error;
\* otherwise it reports success, reports failure, or raises
solvePnP(call, outcome) ==
    IF Len(call.object_points) # Len(call.image_points) THEN "cv2.error" ELSE outcome

SolverOutcomes == {"ok", "failed"}

\* rvec, tvec as cv2.solvePnP returns them when it succeeds
SolvedPose == [rvec_tvec |-> camera_pose]

\* CameraExtrinsic(rotation_vector=rvec, translation_vector=tvec)
CameraExtrinsicOf(pose) == [rotation_vector |-> pose.rvec_tvec, translation_vector |-> pose.rvec_tvec]

\* ExtrinsicCalibrationResult(extrinsic, reprojection_error, image_path, num_points)
ExtrinsicCalibrationResult(extr, image_path) == [extrinsic |-> extr, image_path |-> image_path]

\* ExtrinsicCalibrator.calibrate(image_path, corners, method); detected is
\* what _detect_corners returns when corners is None
ExtrinsicCalibrator_calibrate(checkerboard, image_path, corners, method, detected, outcome) ==
    LET used == IF corners = None THEN detected ELSE corners
        call == SolverCall(generate_object_points(checkerboard), used[1], method)
        res  == solvePnP(call, outcome)
    IN  IF used = None
        THEN [solver |-> None, raised |-> "CalibrationError", result |-> None]
        ELSE IF res = "cv2.error"
        THEN [solver |-> Some(call), raised |-> "cv2.error", result |-> None]
        ELSE IF res = "failed"
        THEN [solver |-> Some(call), raised |-> "CalibrationError", result |-> None]
        ELSE [solver |-> Some(call), raised |-> "",
              result |-> Some(ExtrinsicCalibrationResult(CameraExtrinsicOf(SolvedPose),
                                                         image_path))]

\* the values the rows / cols spin boxes take
SpinConfigs == { [rows |-> 2, cols |-> c] : c \in {2, MaxGridX} }

\* a CalibrationResult as MainWindow holds it: its intrinsic is named by
\* where it was computed, the worker that emitted it or the file it was read from
CalibrationResultFrom(origin, n) == [intrinsic |-> [origin |-> origin, n |-> n]]

\* a worker object: CornerDetectionWorker ("corner") or CalibrationWorker ("calib")
Worker(id, kind) == [id |-> id, kind |-> kind]

\* a signal emitted in a worker thread, queued for its slot in the GUI thread
QueuedSignal(kind, worker, result) == [signal |-> kind, worker |-> worker, result |-> result]

\* CoordinateTransformer(intrinsic=..., extrinsic=...) as MainWindow holds it
CoordinateTransformer(intr, extr) == [intrinsic |-> intr, extrinsic |-> extr]

NoAppCall ==
    [op |-> "init", via |-> "", message |-> "", intrinsic |-> None, extrinsic |-> None]

\* MainWindow.__init__: no worker, no transformer, the buttons enabled
AppInit ==
    /\ camera_pose = 1
    /\ mw_transformer = None
    /\ mw_corner_worker = None
    /\ mw_calib_worker = None
    /\ mw_buttons_enabled = TRUE
    /\ mw_image_count = 0
    /\ mw_threads = {}
    /\ mw_signals = <<>>
    /\ mw_spawned = 0
    /\ alast = NoAppCall

AppIdle == AppInit

\* the window after _on_calibrate started a CalibrationWorker from the panel
\* button and the worker emitted finished(result): the signal waits for its slot
AppCalibrated ==
    /\ camera_pose = 1
    /\ mw_transformer = None
    /\ mw_corner_worker = None
    /\ mw_calib_worker = Some(Worker(1, "calib"))
    /\ mw_buttons_enabled = FALSE
    /\ mw_image_count = MIN_IMAGES_FOR_CALIBRATION
    /\ mw_threads = {}
    /\ mw_signals = <<QueuedSignal("calib_finished", Worker(1, "calib"),
                                   Some(CalibrationResultFrom("worker", 1)))>>
    /\ mw_spawned = 1
    /\ alast = NoAppCall

\* _set_buttons_enabled(enabled): the four panel buttons
set_buttons_enabled(enabled) == mw_buttons_enabled' = enabled

NoPoseCall ==
    [op |-> "init", algo |-> "", mode |-> "", n |-> 0, message |-> "",
     solver |-> None, outcome |-> ""]

PoseInit ==
    /\ mw_result = None
    /\ mw_corner_cache = None
    /\ mw_marked_points = <<>>
    /\ mw_point_data = <<>>
    /\ mw_extrinsic_result = None
    /\ plast = NoPoseCall

\* plast records pose solves and pairings only
PoseFrame(op) == plast' = NoPoseCall

\* everything but the window's pose and application state
notWindow == <<calibVars, transformVars, legacyVars, batchVars, gridVars, fileVars>>

\* _on_calib_finished(result): the slot of CalibrationWorker.finished
on_calibration_finished ==
    /\ mw_signals # <<>>
    /\ Head(mw_signals).signal = "calib_finished"
    /\ mw_signals' = Tail(mw_signals)
    /\ set_buttons_enabled(TRUE)
    /\ mw_calib_worker' = None
    /\ mw_result' = Head(mw_signals).result
    /\ PoseFrame("on_calibration_finished")
    /\ alast' = NoAppCall
    /\ UNCHANGED <<mw_corner_cache, mw_marked_points, mw_point_data,
                   mw_extrinsic_result, camera_pose, mw_transformer,
                   mw_corner_worker, mw_image_count, mw_threads, mw_spawned,
                   notWindow>>

\* _on_corner_single_result: the worker's CornerDetector was built from the
\* spin values at the time detection was started
on_corner_single_result ==
    \E cfg \in SpinConfigs, found \in BOOLEAN :
        LET result == detect(cfg, TRUE, 1, TRUE, found,
                             Some(RawCorners(1, num_corners(cfg))))
        IN  /\ mw_corner_cache' = IF result.success THEN result.corners ELSE None
            /\ PoseFrame("on_corner_single_result")
            /\ UNCHANGED <<mw_result, mw_marked_points, mw_point_data,
                           mw_extrinsic_result, notPose>>

\* _on_point_added: a marked pixel without world coordinates
on_point_added ==
    /\ Len(mw_marked_points) < MaxMarked
    /\ mw_marked_points' = Append(mw_marked_points,
          [pixel |-> Len(mw_marked_points) + 1, world_x |-> None, world_y |-> None])
    /\ PoseFrame("on_point_added")
    /\ UNCHANGED <<mw_result, mw_corner_cache, mw_point_data,
                   mw_extrinsic_result, notPose>>

\* the rows the operator edits: the first row that still lacks a coordinate
EditableRows(marked) ==
    { row \in 1..Len(marked) :
        /\ marked[row].world_x = None \/ marked[row].world_y = None
        /\ \A q \in 1..(row - 1) :
              marked[q].world_x # None /\ marked[q].world_y # None }

\* _on_ext_world_coord_changed(row, column) with the cell's text parsed
on_ext_world_coord_changed ==
    \E row \in EditableRows(mw_marked_points), column \in {3, 4},
       value \in {None, Some(1)} :
        \* world X is typed before world Y; an empty text clears a cell
        /\ column = 4 => mw_marked_points[row].world_x # None
        /\ value = None => column = 3 /\ mw_marked_points[row].world_x # None
        /\ mw_marked_points' =
              IF column = 3
              THEN [mw_marked_points EXCEPT ![row].world_x = value]
              ELSE [mw_marked_points EXCEPT ![row].world_y = value]
        /\ PoseFrame("on_ext_world_coord_changed")
        /\ UNCHANGED <<mw_result, mw_corner_cache, mw_point_data,
                       mw_extrinsic_result, notPose>>

\* _on_add_point
on_add_point ==
    /\ Len(mw_point_data) < MaxPoints
    /\ mw_point_data' = Append(mw_point_data,
          [id |-> Len(mw_point_data) + 1, image |-> Len(mw_point_data) + 1,
           world |-> <<Len(mw_point_data) + 1, 0>>])
    /\ PoseFrame("on_add_point")
    /\ UNCHANGED <<mw_result, mw_corner_cache, mw_marked_points,
                   mw_extrinsic_result, notPose>>

\* _on_clear_points, confirmed or declined
on_clear_points ==
    \E yes \in BOOLEAN :
        /\ mw_point_data' = IF mw_point_data # <<>> /\ yes THEN <<>> ELSE mw_point_data
        /\ PoseFrame("on_clear_points")
        /\ UNCHANGED <<mw_result, mw_corner_cache, mw_marked_points,
                       mw_extrinsic_result, notPose>>

\* _on_load_corners_to_points: _generated_world_coords is never assigned
\* after __init__, so only the pixel-only branch and the no-corner branch run
load_corners(pd, cache, world_coords) ==
    IF cache = None
    THEN [point_data |-> pd, message |-> "no corners"]
    ELSE IF world_coords # <<>>
    THEN IF Len(cache[1]) # Len(world_coords)
         THEN [point_data |-> pd, message |-> "count mismatch"]
         ELSE [point_data |-> ZipCoords(world_coords, cache[1]), message |-> "loaded"]
    ELSE [point_data |->
             [k \in 1..Len(cache[1]) |->
                 [id |-> k, image |-> cache[1][k], world |-> <<0, 0>>]],
          message |-> "loaded"]

on_load_corners_to_points ==
    LET r == load_corners(mw_point_data, mw_corner_cache, <<>>)
    IN  /\ mw_point_data' = r.point_data
        /\ plast' = [NoPoseCall EXCEPT !.op = "on_load_corners_to_points",
                                       !.message = r.message]
        /\ UNCHANGED <<mw_result, mw_corner_cache, mw_marked_points,
                       mw_extrinsic_result, notPose>>

\* the algorithm families of ext_algo_combo and their item data
AlgoData(f) == SolvePnPFlag(f)

\* algo_flags.get(algo_data, cv2.SOLVEPNP_ITERATIVE)
pnp_flag_of(algo_data) ==
    IF \E f \in Families : AlgoData(f) = algo_data
    THEN algo_data ELSE "SOLVEPNP_ITERATIVE"

\* min_points of _on_calibrate_extrinsic
min_points_of(algo_data) ==
    IF algo_data \in {"SOLVEPNP_P3P", "SOLVEPNP_AP3P"} THEN 3 ELSE 4

\* the marked points with both world coordinates filled in
valid_webcam_points(marked) ==
    SelectSeq(marked, LAMBDA p : p.world_x # None /\ p.world_y # None)

\* the method argument of the calibrator.calibrate call in the corner branch:
\* the call passes none, so the parameter's default applies
CornerModeMethod(pnp_flag) == "SOLVEPNP_ITERATIVE"

\* _on_calibrate_extrinsic, points branch: the outcome record
calibrate_from_points(algo_data, marked, pd, outcome) ==
    LET valid == valid_webcam_points(marked)
        min_points == min_points_of(algo_data)
        fromWebcam == Len(valid) >= min_points
        object_pts == IF fromWebcam
                      THEN [k \in 1..Len(valid) |->
                               <<valid[k].world_x[1], valid[k].world_y[1], 0>>]
                      ELSE ObjectPointsOf(pd)
        image_pts == IF fromWebcam
                     THEN [k \in 1..Len(valid) |-> valid[k].pixel]
                     ELSE ImagePointsOf(pd)
        call == SolverCall(object_pts, image_pts, pnp_flag_of(algo_data))
        res == solvePnP(call, outcome)
        n == IF fromWebcam THEN Len(valid) ELSE Len(pd)
    IN  IF ~fromWebcam /\ ~(Len(pd) >= min_points)
        THEN [n |-> IF Len(valid) > Len(pd) THEN Len(valid) ELSE Len(pd),
              solver |-> None, message |-> "not enough points", result |-> None]
        ELSE IF res = "cv2.error"
        THEN [n |-> n, solver |-> Some(call), message |-> "error", result |-> None]
        ELSE IF res = "failed"
        THEN [n |-> n, solver |-> Some(call), message |-> "solvePnP failed",
              result |-> None]
        ELSE [n |-> n, solver |-> Some(call), message |-> "done",
              result |-> Some(ExtrinsicCalibrationResult(CameraExtrinsicOf(SolvedPose),
                                  IF fromWebcam THEN "webcam_points" ELSE "point_data"))]

\* _on_calibrate_extrinsic, corner branch: the outcome record and the cache
calibrate_from_corners(algo_data, image_path, cache, cfg, found, outcome) ==
    LET result == detect(cfg, TRUE, 1, TRUE, found,
                         Some(RawCorners(1, num_corners(cfg))))
        corners == IF cache = None THEN result.corners ELSE cache
        r == ExtrinsicCalibrator_calibrate(cfg, image_path, corners,
                 CornerModeMethod(pnp_flag_of(algo_data)), None, outcome)
    IN  IF image_path = 0
        THEN [n |-> 0, solver |-> None, message |-> "no image", result |-> None,
              cache |-> cache]
        ELSE IF cache = None /\ ~result.success
        THEN [n |-> 0, solver |-> None, message |-> "detection failed",
              result |-> None, cache |-> cache]
        ELSE [n |-> Len(corners[1]), solver |-> r.solver,
              message |-> IF r.raised = "" THEN "done" ELSE "error",
              result |-> r.result, cache |-> corners]

replaced_extrinsic_result(prev, r) == r.result

\* _on_calibrate_extrinsic: self._extrinsic_result is assigned only behind
\* a successful solve
stored_extrinsic_result(prev, r) == IF r.result = None THEN prev ELSE r.result

\* _on_calibrate_extrinsic: self._transformer is built behind a successful
\* solve from the intrinsic of self._result and the new extrinsic
built_transformer(prev, result, r) ==
    IF r.result = None THEN prev
    ELSE Some(CoordinateTransformer(result.intrinsic, r.result[1].extrinsic))

\* _on_calibrate_extrinsic
on_calibrate_extrinsic ==
    \E f \in Families, use_points \in BOOLEAN, image_path \in {0, 1},
       cfg \in SpinConfigs, found \in BOOLEAN, outcome \in SolverOutcomes :
        \* widget values the chosen branch does not read are left at one value
        /\ use_points => image_path = 1 /\ found /\ cfg.cols = 2
        /\ image_path = 0 => found /\ cfg.cols = 2 /\ outcome = "ok"
        /\ mw_corner_cache # None => found
        /\ \E r \in { IF use_points
                      THEN calibrate_from_points(AlgoData(f), mw_marked_points,
                                                 mw_point_data, outcome)
                      ELSE calibrate_from_corners(AlgoData(f), image_path,
                               mw_corner_cache, cfg, found, outcome) } :
           LET base == [NoPoseCall EXCEPT !.op = "on_calibrate_extrinsic", !.algo = f,
                           !.mode = IF use_points THEN "points" ELSE "corners"]
           IN  IF mw_result = None
               THEN /\ plast' = [base EXCEPT !.message = "no intrinsic"]
                    /\ alast' = NoAppCall
                    /\ UNCHANGED <<mw_result, mw_corner_cache, mw_marked_points,
                                   mw_point_data, mw_extrinsic_result, camera_pose,
                                   mw_transformer, workerVars, notWindow>>
               ELSE /\ plast' = [base EXCEPT !.n = r.n, !.solver = r.solver,
                                             !.message = r.message,
                                             !.outcome = IF r.solver = None THEN ""
                                                         ELSE solvePnP(r.solver[1], outcome)]
                    /\ mw_corner_cache' = IF use_points THEN mw_corner_cache ELSE r.cache
                    /\ mw_extrinsic_result' = stored_extrinsic_result(mw_extrinsic_result, r)
                    /\ mw_transformer' = built_transformer(mw_transformer, mw_result[1], r)
                    /\ alast' = NoAppCall
                    /\ UNCHANGED <<mw_result, mw_marked_points, mw_point_data,
                                   camera_pose, workerVars, notWindow>>

\* what the handlers below leave alone in the pose state
appFrame == UNCHANGED <<mw_corner_cache, mw_marked_points, mw_point_data, notWindow>>

\* _on_open: the file dialog is cancelled, CalibrationFile.load raises, or
\* it returns the result read from the file
on_open ==
    \E outcome \in {"cancelled", "error", "loaded"} :
        /\ mw_result' = IF outcome = "loaded"
                        THEN Some(CalibrationResultFrom("file", 1))
                        ELSE mw_result
        /\ alast' = [NoAppCall EXCEPT !.op = "on_open", !.message = outcome]
        /\ PoseFrame("on_open")
        /\ UNCHANGED <<mw_extrinsic_result, camera_pose, mw_transformer, workerVars>>
        /\ appFrame

\* the record of a conversion handler: the parameters of the transformer
\* the conversion is computed with
conversion(op, transformer) ==
    IF transformer = None
    THEN [NoAppCall EXCEPT !.op = op, !.message = "no transformer"]
    ELSE [NoAppCall EXCEPT !.op = op, !.message = "converted",
                           !.intrinsic = Some(transformer[1].intrinsic),
                           !.extrinsic = Some(transformer[1].extrinsic)]

\* _on_pixel_to_world
on_pixel_to_world ==
    /\ alast' = conversion("on_pixel_to_world", mw_transformer)
    /\ PoseFrame("on_pixel_to_world")
    /\ UNCHANGED <<mw_result, mw_extrinsic_result, camera_pose, mw_transformer, workerVars>>
    /\ appFrame

\* _on_world_to_pixel
on_world_to_pixel ==
    /\ alast' = conversion("on_world_to_pixel", mw_transformer)
    /\ PoseFrame("on_world_to_pixel")
    /\ UNCHANGED <<mw_result, mw_extrinsic_result, camera_pose, mw_transformer, workerVars>>
    /\ appFrame

\* the camera or the target is moved between two pose solves
move_camera ==
    /\ \E pose \in (1..NumPoses) \ {camera_pose} : camera_pose' = pose
    /\ alast' = NoAppCall
    /\ PoseFrame("move_camera")
    /\ UNCHANGED <<mw_result, mw_extrinsic_result, mw_transformer, workerVars>>
    /\ appFrame

\* where a handler is triggered from: the panel button emits clicked only
\* while it is enabled, the toolbar action is never disabled
Triggers == {"button", "toolbar"}
CanTrigger(via) == via = "toolbar" \/ mw_buttons_enabled

workerFrame == UNCHANGED <<mw_extrinsic_result, camera_pose, mw_transformer>>

\* _on_detect_corners
on_detect_corners ==
    \E via \in Triggers :
        /\ CanTrigger(via)
        /\ mw_spawned < MaxWorkers
        /\ IF mw_image_count = 0
           THEN /\ alast' = [NoAppCall EXCEPT !.op = "on_detect_corners", !.via = via,
                                              !.message = "no images"]
                /\ UNCHANGED workerVars
           ELSE LET worker == Worker(mw_spawned + 1, "corner")
                IN  /\ set_buttons_enabled(FALSE)
                    /\ mw_corner_worker' = Some(worker)
                    /\ mw_threads' = mw_threads \cup {worker}
                    /\ mw_spawned' = mw_spawned + 1
                    /\ alast' = [NoAppCall EXCEPT !.op = "on_detect_corners", !.via = via,
                                                  !.message = "started"]
                    /\ UNCHANGED <<mw_calib_worker, mw_image_count, mw_signals>>
        /\ PoseFrame("on_detect_corners")
        /\ UNCHANGED mw_result
        /\ workerFrame
        /\ appFrame

\* _on_calibrate
on_calibrate ==
    \E via \in Triggers :
        /\ CanTrigger(via)
        /\ mw_spawned < MaxWorkers
        /\ IF mw_image_count = 0
           THEN /\ alast' = [NoAppCall EXCEPT !.op = "on_calibrate", !.via = via,
                                              !.message = "no images"]
                /\ UNCHANGED workerVars
           ELSE LET worker == Worker(mw_spawned + 1, "calib")
                IN  /\ set_buttons_enabled(FALSE)
                    /\ mw_calib_worker' = Some(worker)
                    /\ mw_threads' = mw_threads \cup {worker}
                    /\ mw_spawned' = mw_spawned + 1
                    /\ alast' = [NoAppCall EXCEPT !.op = "on_calibrate", !.via = via,
                                                  !.message = "started"]
                    /\ UNCHANGED <<mw_corner_worker, mw_image_count, mw_signals>>
        /\ PoseFrame("on_calibrate")
        /\ UNCHANGED mw_result
        /\ workerFrame
        /\ appFrame

\* CornerDetectionWorker.run to its end: the thread emits finished, or error
\* from its except branch, and stops
corner_worker_run ==
    \E worker \in mw_threads, signal \in {"corner_finished", "corner_error"} :
        /\ worker.kind = "corner"
        /\ mw_threads' = mw_threads \ {worker}
        /\ mw_signals' = Append(mw_signals, QueuedSignal(signal, worker, None))
        /\ alast' = NoAppCall
        /\ PoseFrame("corner_worker_run")
        /\ UNCHANGED <<mw_result, mw_corner_worker, mw_calib_worker,
                       mw_buttons_enabled, mw_image_count, mw_spawned>>
        /\ workerFrame
        /\ appFrame

\* CalibrationWorker.run to its end, never cancelled (MainWindow calls no
\* cancel()): the thread emits finished(result) or error and stops
calib_worker_run ==
    \E worker \in mw_threads, signal \in {"calib_finished", "calib_error"} :
        /\ worker.kind = "calib"
        /\ mw_threads' = mw_threads \ {worker}
        /\ mw_signals' = Append(mw_signals,
              QueuedSignal(signal, worker,
                           IF signal = "calib_finished"
                           THEN Some(CalibrationResultFrom("worker", worker.id))
                           ELSE None))
        /\ alast' = NoAppCall
        /\ PoseFrame("calib_worker_run")
        /\ UNCHANGED <<mw_result, mw_corner_worker, mw_calib_worker,
                       mw_buttons_enabled, mw_image_count, mw_spawned>>
        /\ workerFrame
        /\ appFrame

\* _on_corner_finished(success_count, total_count)
on_corner_finished ==
    /\ mw_signals # <<>>
    /\ Head(mw_signals).signal = "corner_finished"
    /\ mw_signals' = Tail(mw_signals)
    /\ set_buttons_enabled(TRUE)
    /\ mw_corner_worker' = None
    /\ alast' = NoAppCall
    /\ PoseFrame("on_corner_finished")
    /\ UNCHANGED <<mw_result, mw_calib_worker, mw_image_count, mw_threads, mw_spawned>>
    /\ workerFrame
    /\ appFrame

\* _on_corner_error(error_msg)
on_corner_error ==
    /\ mw_signals # <<>>
    /\ Head(mw_signals).signal = "corner_error"
    /\ mw_signals' = Tail(mw_signals)
    /\ set_buttons_enabled(TRUE)
    /\ mw_corner_worker' = None
    /\ alast' = [NoAppCall EXCEPT !.op = "on_corner_error", !.message = "error"]
    /\ PoseFrame("on_corner_error")
    /\ UNCHANGED <<mw_result, mw_calib_worker, mw_image_count, mw_threads, mw_spawned>>
    /\ workerFrame
    /\ appFrame

\* _on_calib_error(error_msg)
on_calib_error ==
    /\ mw_signals # <<>>
    /\ Head(mw_signals).signal = "calib_error"
    /\ mw_signals' = Tail(mw_signals)
    /\ set_buttons_enabled(TRUE)
    /\ mw_calib_worker' = None
    /\ alast' = [NoAppCall EXCEPT !.op = "on_calib_error", !.message = "error"]
    /\ PoseFrame("on_calib_error")
    /\ UNCHANGED <<mw_result, mw_corner_worker, mw_image_count, mw_threads, mw_spawned>>
    /\ workerFrame
    /\ appFrame

\* three points in the point table, as _on_add_point builds them
PointsAtHand ==
    [k \in 1..3 |-> [id |-> k, image |-> k, world |-> <<k, 0>>]]

\* the window with three points entered and the result of a calibration run
\* on its way
AppWithPoints ==
    /\ mw_result = None
    /\ mw_corner_cache = None
    /\ mw_marked_points = <<>>
    /\ mw_point_data = PointsAtHand
    /\ mw_extrinsic_result = None
    /\ plast = NoPoseCall
    /\ AppCalibrated

\* the window after construction, with or without images in the list
WorkersInit ==
    /\ PoseInit
    /\ camera_pose = 1
    /\ mw_transformer = None
    /\ mw_corner_worker = None
    /\ mw_calib_worker = None
    /\ mw_buttons_enabled = TRUE
    /\ mw_image_count \in {0, MIN_IMAGES_FOR_CALIBRATION}
    /\ mw_threads = {}
    /\ mw_signals = <<>>
    /\ mw_spawned = 0
    /\ alast = NoAppCall

PoseIdle == PoseInit

\* single-state stand-ins used while another component is explored
TransformIdle ==
    /\ intrinsic = [fx |-> 2, fy |-> 2, cx |-> 1, cy |-> 1,
                    image_size |-> <<ImageW, ImageH>>]
    /\ extrinsic = None /\ R_ = None /\ R_inv = None /\ t_ = None
    /\ tlast = NoTransformCall

CalibIdle ==
    /\ config = [rows |-> 2, cols |-> 3]
    /\ object_points = <<>> /\ image_points = <<>> /\ image_size = None
    /\ detection_results = <<>> /\ okSinceClear = 0 /\ last = NoCall

-----------------------------------------------------------------------------
(* Calibration files: HDF5Format, MATFormat, JSONFormat, CalibrationFile *)

\* numbers carry the type they have in Python / numpy; == compares the values
PyIntValue(n) == [t |-> "int", v |-> n]
AsFloat64(x) == [t |-> "float64", v |-> x.v]
\* image sizes lie far inside the int32 range, where the cast keeps the value
AsInt32(x) == [t |-> "int32", v |-> x.v]
PyInt(x) == [t |-> "int", v |-> x.v]

\* a numpy array: its shape and its elements in C order
Array(shape, data) == [shape |-> shape, data |-> data]
ravel(a) == Array(<<Len(a.data)>>, a.data)
reshape_row(a) == Array(<<1, Len(a.data)>>, a.data)
reshape_3_1(a) == Array(<<3, 1>>, a.data)
\* scipy's squeeze_element under squeeze_me=True: unit dimensions are dropped,
\* an array without elements becomes an empty 1-d array
squeeze_element(a) ==
    IF a.data = <<>> THEN Array(<<0>>, <<>>)
    ELSE Array(SelectSeq(a.shape, LAMBDA d : d # 1), a.data)

\* datetime.isoformat(): the fraction is written only when it is not zero
isoformat(ts) == IF ts.microsecond = 0 THEN <<ts.second>> ELSE <<ts.second, ts.microsecond>>
\* the clock value datetime.now() returns while a file is loaded
NowAtLoad == [second |-> 9, microsecond |-> 9]
\* datetime.fromisoformat(s) if s else datetime.now()
parse_timestamp(s) ==
    IF s = <<>> THEN NowAtLoad
    ELSE [second |-> s[1], microsecond |-> IF Len(s) > 1 THEN s[2] ELSE 0]

\* a str written by savemat: MATLAB holds it as an array of char, and an
\* array of no chars is all that is left of the empty string
mat_char(s, is_empty) == [text |-> s, no_chars |-> is_empty]
\* str(data.get(key)) on what loadmat returns for such an array
str_of_mat_char(c, repr_of_empty) == IF c.no_chars THEN repr_of_empty ELSE c.text

\* CameraIntrinsic.__post_init__ / CameraExtrinsic.__post_init__
CameraIntrinsic(camera_matrix, distortion_coeffs, size, reprojection_error) ==
    [camera_matrix |-> camera_matrix, distortion_coeffs |-> ravel(distortion_coeffs),
     image_size |-> size, reprojection_error |-> reprojection_error]
CameraExtrinsic(rotation_vector, translation_vector) ==
    [rotation_vector |-> reshape_3_1(rotation_vector),
     translation_vector |-> reshape_3_1(translation_vector)]
CheckerboardConfig(rows, cols, square_size_mm) ==
    [rows |-> rows, cols |-> cols, square_size_mm |-> square_size_mm]

CalibrationResult(intr, extr, timestamp, checkerboard_config, num_images_used, software_version, notes, per_image_errors) ==
    [intrinsic |-> intr, extrinsic |-> extr, timestamp |-> timestamp,
     checkerboard_config |-> checkerboard_config,
     num_images_used |-> num_images_used, software_version |-> software_version,
     notes |-> notes, per_image_errors |-> per_image_errors]

\* the results that are saved
Results ==
    { CalibrationResult(
          CameraIntrinsic(Array(<<3, 3>>, <<8, 0, 3, 0, 8, 2, 0, 0, 1>>),
                          Array(<<1, 5>>, <<1, 2, 3, 4, 5>>),
                          <<PyIntValue(ImageW), PyIntValue(ImageH)>>, 7),
          extr, timestamp, checkerboard_config, PyIntValue(NumImages + 1),
          software_version, notes, per_image_errors) :
        extr \in {None, Some(CameraExtrinsic(Array(<<3, 1>>, <<1, 2, 3>>),
                                             Array(<<3, 1>>, <<4, 5, 6>>)))},
        timestamp \in {[second |-> 1, microsecond |-> 0],
                       [second |-> 1, microsecond |-> 5]},
        checkerboard_config \in {None, Some(CheckerboardConfig(PyIntValue(2), PyIntValue(3), 30))},
        software_version \in {"1.0.0", ""},
        notes \in {"", "bench camera"},
        per_image_errors \in {None, Some(<<4>>), Some(<<4, 6>>)} }

\* what a file holds.  intrinsic, camera_matrix, distortion_coeffs, extrinsic,
\* checkerboard, notes and per_image_errors may be missing (None).
Document(intr, extr, timestamp, checkerboard, num_images_used, software_version, notes, per_image_errors) ==
    [intrinsic |-> intr, extrinsic |-> extr, timestamp |-> timestamp,
     checkerboard |-> checkerboard, num_images_used |-> num_images_used,
     software_version |-> software_version, notes |-> notes,
     per_image_errors |-> per_image_errors]

NoDocument == Document(None, None, <<>>, None, PyIntValue(0), "", None, None)

\* a file: what kind of bytes it holds, the document in it, and (history)
\* the handler that wrote it, "" for a file that came from elsewhere
File(container, doc, written_by) ==
    [container |-> container, doc |-> doc, written_by |-> written_by]

Loaded(result) == [outcome |-> "ok", result |-> Some(result)]
Raised(exception) == [outcome |-> exception, result |-> None]

\* HDF5Format.save
HDF5Format_save(result) ==
    LET i == result.intrinsic
    IN  File("hdf5",
             Document(Some([camera_matrix |-> Some(i.camera_matrix),
                            distortion_coeffs |-> Some(i.distortion_coeffs),
                            image_size |-> <<AsInt32(i.image_size[1]),
                                             AsInt32(i.image_size[2])>>,
                            reprojection_error |-> i.reprojection_error]),
                      IF result.extrinsic = None THEN None
                      ELSE Some([rotation_vector |-> ravel(result.extrinsic[1].rotation_vector),
                                 translation_vector |-> ravel(result.extrinsic[1].translation_vector)]),
                      isoformat(result.timestamp),
                      result.checkerboard_config,
                      result.num_images_used, result.software_version,
                      Some(result.notes),
                      IF result.per_image_errors = None THEN None
                      ELSE Some(Array(<<Len(result.per_image_errors[1])>>,
                                      result.per_image_errors[1]))),
             "hdf5")

\* HDF5Format.load
HDF5Format_load(f) ==
    IF f = None THEN Raised("FileFormatError")
    ELSE IF f[1].container # "hdf5" THEN Raised("OSError")
    ELSE LET d == f[1].doc
         IN  IF d.intrinsic = None THEN Raised("FileFormatError")
             ELSE IF d.intrinsic[1].camera_matrix = None
                     \/ d.intrinsic[1].distortion_coeffs = None
             THEN Raised("KeyError")
             ELSE LET g == d.intrinsic[1]
                  IN  Loaded(CalibrationResult(
                          CameraIntrinsic(g.camera_matrix[1], g.distortion_coeffs[1],
                                          g.image_size, g.reprojection_error),
                          IF d.extrinsic = None THEN None
                          ELSE Some(CameraExtrinsic(d.extrinsic[1].rotation_vector,
                                                    d.extrinsic[1].translation_vector)),
                          parse_timestamp(d.timestamp),
                          IF d.checkerboard = None THEN None
                          ELSE Some(CheckerboardConfig(PyInt(d.checkerboard[1].rows),
                                                       PyInt(d.checkerboard[1].cols),
                                                       d.checkerboard[1].square_size_mm)),
                          PyInt(d.num_images_used), d.software_version,
                          IF d.notes = None THEN "" ELSE d.notes[1],
                          IF d.per_image_errors = None THEN None
                          ELSE Some(d.per_image_errors[1].data)))

\* HDF5Format.is_valid_file: OSError and KeyError are answered with False
HDF5Format_is_valid_file(f) ==
    [raised |-> "",
     valid |-> /\ f # None
               /\ f[1].container = "hdf5"
               /\ f[1].doc.intrinsic # None
               /\ f[1].doc.intrinsic[1].camera_matrix # None]

\* JSONFormat.save
JSONFormat_save(result) ==
    LET i == result.intrinsic
    IN  File("json",
             Document(Some([camera_matrix |-> Some(i.camera_matrix),
                            distortion_coeffs |-> Some(i.distortion_coeffs),
                            image_size |-> i.image_size,
                            reprojection_error |-> i.reprojection_error]),
                      IF result.extrinsic = None THEN None
                      ELSE Some([rotation_vector |-> ravel(result.extrinsic[1].rotation_vector),
                                 translation_vector |-> ravel(result.extrinsic[1].translation_vector)]),
                      isoformat(result.timestamp),
                      result.checkerboard_config,
                      result.num_images_used, result.software_version,
                      Some(result.notes),
                      IF result.per_image_errors = None THEN None
                      ELSE Some(Array(<<Len(result.per_image_errors[1])>>,
                                      result.per_image_errors[1]))),
             "json")

\* what open(path, encoding="utf-8") + json.load make of the bytes
json_load(f) ==
    CASE f[1].container = "json" -> "object"
      [] f[1].container = "json_number" -> "number"
      [] f[1].container = "text" -> "JSONDecodeError"
      [] OTHER -> "UnicodeDecodeError"

\* JSONFormat.load
JSONFormat_load(f) ==
    IF f = None THEN Raised("FileFormatError")
    ELSE IF json_load(f) = "JSONDecodeError" THEN Raised("FileFormatError")
    ELSE IF json_load(f) = "UnicodeDecodeError" THEN Raised("UnicodeDecodeError")
    ELSE IF json_load(f) = "number" THEN Raised("TypeError")
    ELSE LET d == f[1].doc
         IN  IF d.intrinsic = None THEN Raised("FileFormatError")
             ELSE IF d.intrinsic[1].camera_matrix = None THEN Raised("FileFormatError")
             ELSE LET g == d.intrinsic[1]
                  IN  Loaded(CalibrationResult(
                          CameraIntrinsic(g.camera_matrix[1],
                                          IF g.distortion_coeffs = None
                                          THEN Array(<<5>>, <<0, 0, 0, 0, 0>>)
                                          ELSE g.distortion_coeffs[1],
                                          g.image_size, g.reprojection_error),
                          IF d.extrinsic = None THEN None
                          ELSE Some(CameraExtrinsic(d.extrinsic[1].rotation_vector,
                                                    d.extrinsic[1].translation_vector)),
                          parse_timestamp(d.timestamp),
                          IF d.checkerboard = None THEN None
                          ELSE Some(CheckerboardConfig(PyInt(d.checkerboard[1].rows),
                                                       PyInt(d.checkerboard[1].cols),
                                                       d.checkerboard[1].square_size_mm)),
                          PyInt(d.num_images_used), d.software_version,
                          IF d.notes = None THEN "" ELSE d.notes[1],
                          IF d.per_image_errors = None THEN None
                          ELSE Some(d.per_image_errors[1].data)))

\* JSONFormat.is_valid_file: only JSONDecodeError and KeyError are answered
\* with False
JSONFormat_is_valid_file(f) ==
    IF f = None THEN [raised |-> "", valid |-> FALSE]
    ELSE IF json_load(f) = "JSONDecodeError" THEN [raised |-> "", valid |-> FALSE]
    ELSE IF json_load(f) = "UnicodeDecodeError"
    THEN [raised |-> "UnicodeDecodeError", valid |-> FALSE]
    ELSE IF json_load(f) = "number" THEN [raised |-> "TypeError", valid |-> FALSE]
    ELSE [raised |-> "",
          valid |-> /\ f[1].doc.intrinsic # None
                    /\ f[1].doc.intrinsic[1].camera_matrix # None]

\* the repr numpy gives an array without elements
ReprOfEmptyArray == "[]"

\* the test `if result.notes:` of MATFormat.save
notes_given(notes) == notes # ""

\* MATFormat.save: the document as loadmat(squeeze_me=True) returns it
MATFormat_save(result) ==
    LET i == result.intrinsic
    IN  File("mat",
             Document(Some([camera_matrix |-> Some(squeeze_element(i.camera_matrix)),
                            distortion_coeffs |->
                                Some(squeeze_element(reshape_row(i.distortion_coeffs))),
                            image_size |-> <<AsFloat64(i.image_size[1]),
                                             AsFloat64(i.image_size[2])>>,
                            reprojection_error |-> i.reprojection_error]),
                      IF result.extrinsic = None THEN None
                      ELSE Some([rotation_vector |->
                                     squeeze_element(result.extrinsic[1].rotation_vector),
                                 translation_vector |->
                                     squeeze_element(result.extrinsic[1].translation_vector)]),
                      mat_char(isoformat(result.timestamp), FALSE),
                      IF result.checkerboard_config = None THEN None
                      ELSE Some([size |-> <<AsFloat64(result.checkerboard_config[1].cols),
                                            AsFloat64(result.checkerboard_config[1].rows)>>,
                                 square_size_mm |-> result.checkerboard_config[1].square_size_mm]),
                      AsFloat64(result.num_images_used),
                      mat_char(result.software_version, result.software_version = ""),
                      IF notes_given(result.notes)
                      THEN Some(mat_char(result.notes, result.notes = ""))
                      ELSE None,
                      IF result.per_image_errors = None THEN None
                      ELSE Some(squeeze_element(reshape_row(
                                    Array(<<Len(result.per_image_errors[1])>>,
                                          result.per_image_errors[1]))))),
             "mat")

\* MATFormat.load: whatever loadmat raises becomes FileFormatError
MATFormat_load(f) ==
    IF f = None THEN Raised("FileFormatError")
    ELSE IF f[1].container # "mat" THEN Raised("FileFormatError")
    ELSE LET d == f[1].doc
         IN  IF d.intrinsic = None THEN Raised("FileFormatError")
             ELSE IF d.intrinsic[1].camera_matrix = None
                     \/ d.intrinsic[1].distortion_coeffs = None
             THEN Raised("FileFormatError")
             ELSE LET g == d.intrinsic[1]
                  IN  Loaded(CalibrationResult(
                          CameraIntrinsic(g.camera_matrix[1], ravel(g.distortion_coeffs[1]),
                                          <<PyInt(g.image_size[1]), PyInt(g.image_size[2])>>,
                                          g.reprojection_error),
                          IF d.extrinsic = None THEN None
                          ELSE Some(CameraExtrinsic(d.extrinsic[1].rotation_vector,
                                                    d.extrinsic[1].translation_vector)),
                          parse_timestamp(str_of_mat_char(d.timestamp, <<>>)),
                          IF d.checkerboard = None THEN None
                          ELSE Some(CheckerboardConfig(PyInt(d.checkerboard[1].size[2]),
                                                       PyInt(d.checkerboard[1].size[1]),
                                                       d.checkerboard[1].square_size_mm)),
                          PyInt(d.num_images_used),
                          str_of_mat_char(d.software_version, ReprOfEmptyArray),
                          IF d.notes = None THEN ""
                          ELSE str_of_mat_char(d.notes[1], ReprOfEmptyArray),
                          IF d.per_image_errors = None THEN None
                          ELSE Some(ravel(d.per_image_errors[1]).data)))

\* MATFormat.is_valid_file: every exception is answered with False
MATFormat_is_valid_file(f) ==
    [raised |-> "",
     valid |-> /\ f # None
               /\ f[1].container = "mat"
               /\ f[1].doc.intrinsic # None
               /\ f[1].doc.intrinsic[1].camera_matrix # None
               /\ f[1].doc.intrinsic[1].distortion_coeffs # None]

\* str.lower() on the characters that occur in the suffixes
lower(text) ==
    [k \in 1..Len(text) |->
        CASE text[k] = "H" -> "h"
          [] text[k] = "J" -> "j"
          [] text[k] = "S" -> "s"
          [] text[k] = "O" -> "o"
          [] text[k] = "N" -> "n"
          [] OTHER -> text[k]]

\* str.lstrip(".")
RECURSIVE lstrip_dot(_)
lstrip_dot(text) ==
    IF text # <<>> /\ Head(text) = "." THEN lstrip_dot(Tail(text)) ELSE text

\* CalibrationFileFormat.from_extension: the format, or "ValueError"
from_extension(ext) ==
    LET e == lstrip_dot(lower(ext))
    IN  CASE e = <<"h", "5">> -> "hdf5"
          [] e = <<"h", "d", "f", "5">> -> "hdf5"
          [] e = <<"m", "a", "t">> -> "mat"
          [] e = <<"j", "s", "o", "n">> -> "json"
          [] OTHER -> "ValueError"

\* CalibrationFile._handlers, in the order of the dict
Handlers == <<"hdf5", "mat", "json">>

is_valid_file(handler, f) ==
    CASE handler = "hdf5" -> HDF5Format_is_valid_file(f)
      [] handler = "mat" -> MATFormat_is_valid_file(f)
      [] handler = "json" -> JSONFormat_is_valid_file(f)

handler_load(handler, f) ==
    CASE handler = "hdf5" -> HDF5Format_load(f)
      [] handler = "mat" -> MATFormat_load(f)
      [] handler = "json" -> JSONFormat_load(f)

\* CalibrationFile._detect_format from the k-th handler on: the format
\* found, or the exception that ends the probing
RECURSIVE detect_format(_, _)
detect_format(f, k) ==
    IF k > Len(Handlers) THEN [format |-> "", raised |-> "FileFormatError"]
    ELSE LET probe == is_valid_file(Handlers[k], f)
         IN  IF probe.raised # "" THEN [format |-> "", raised |-> probe.raised]
             ELSE IF probe.valid THEN [format |-> Handlers[k], raised |-> ""]
             ELSE detect_format(f, k + 1)

\* CalibrationFile.load(path) with format=None: the handler chosen ("" if
\* none) and what the call returns or raises
CalibrationFile_load(suffix, f) ==
    IF f = None THEN [handler |-> "", loaded |-> Raised("FileFormatError")]
    ELSE IF from_extension(suffix) # "ValueError"
    THEN [handler |-> from_extension(suffix),
          loaded |-> handler_load(from_extension(suffix), f)]
    ELSE LET detected == detect_format(f, 1)
         IN  IF detected.raised # ""
             THEN [handler |-> "", loaded |-> Raised(detected.raised)]
             ELSE [handler |-> detected.format,
                   loaded |-> handler_load(detected.format, f)]

\* <Handler>.EXTENSION
EXTENSION(handler) ==
    CASE handler = "hdf5" -> <<".", "h", "5">>
      [] handler = "mat" -> <<".", "m", "a", "t">>
      [] handler = "json" -> <<".", "j", "s", "o", "n">>

\* Path.with_suffix(new) on a path with the suffix old, the stem left aside:
\* the suffix of the new path
with_suffix(old, new) == new

\* the head of <Handler>.save(path, result): the suffix of the path that is
\* opened for writing
handler_save_path(handler, suffix) ==
    IF lower(suffix) # EXTENSION(handler)
    THEN with_suffix(suffix, EXTENSION(handler))
    ELSE suffix

\* CalibrationFile.save(path, result, format): the handler that writes, the
\* suffix of the path it writes to and the suffix of the path returned
CalibrationFile_save(suffix, format) ==
    LET chosen ==
            IF format # None THEN [format |-> format[1], path |-> suffix]
            ELSE IF from_extension(suffix) # "ValueError"
            THEN [format |-> from_extension(suffix), path |-> suffix]
            ELSE [format |-> "hdf5", path |-> with_suffix(suffix, <<".", "h", "5">>)]
    IN  [handler |-> chosen.format,
         written |-> handler_save_path(chosen.format, chosen.path),
         returned |-> chosen.path]

\* path suffixes a file is opened or saved under
Suffixes ==
    { <<>>, <<".", "h", "5">>, <<".", "H", "5">>, <<".", "h", "d", "f", "5">>,
      <<".", "m", "a", "t">>, <<".", "j", "s", "o", "n">>,
      <<".", "J", "S", "O", "N">>, <<".", "t", "x", "t">>, <<".", "d", "a", "t">> }

\* files that were not written by save: other bytes, or the right container
\* without the intrinsic section or without the camera matrix in it
ForeignFiles ==
    { File(container, NoDocument, "") :
        container \in {"binary", "text", "json_number", "hdf5", "mat", "json"} }
    \cup
    { File(container,
           [NoDocument EXCEPT !.intrinsic =
               Some([camera_matrix |-> None, distortion_coeffs |-> None,
                     image_size |-> <<PyIntValue(0), PyIntValue(0)>>, reprojection_error |-> 0])],
           "") : container \in {"hdf5", "mat", "json"} }

NoFileCall ==
    [op |-> "init", handler |-> "", suffix |-> <<>>, outcome |-> "", result |-> None,
     format |-> None, written |-> <<>>, returned |-> <<>>]

FileInit ==
    /\ cal_result \in { Some(r) : r \in Results }
    /\ file = None
    /\ flast = NoFileCall

FileIdle ==
    /\ cal_result = None
    /\ file = None
    /\ flast = NoFileCall

fileFrame == UNCHANGED <<calibVars, transformVars, legacyVars, poseVars, batchVars, gridVars, appVars>>

\* <Handler>.save(path, result) on a fresh path
hdf5_save ==
    /\ file = None
    /\ cal_result # None
    /\ file' = Some(HDF5Format_save(cal_result[1]))
    /\ flast' = [NoFileCall EXCEPT !.op = "save", !.handler = "hdf5", !.outcome = "ok"]
    /\ UNCHANGED cal_result
    /\ fileFrame

mat_save ==
    /\ file = None
    /\ cal_result # None
    /\ file' = Some(MATFormat_save(cal_result[1]))
    /\ flast' = [NoFileCall EXCEPT !.op = "save", !.handler = "mat", !.outcome = "ok"]
    /\ UNCHANGED cal_result
    /\ fileFrame

json_save ==
    /\ file = None
    /\ cal_result # None
    /\ file' = Some(JSONFormat_save(cal_result[1]))
    /\ flast' = [NoFileCall EXCEPT !.op = "save", !.handler = "json", !.outcome = "ok"]
    /\ UNCHANGED cal_result
    /\ fileFrame

\* a file from elsewhere is put at the path
foreign_file ==
    /\ file = None
    /\ \E f \in ForeignFiles : file' = Some(f)
    /\ flast' = [NoFileCall EXCEPT !.op = "foreign"]
    /\ UNCHANGED cal_result
    /\ fileFrame

\* the record of <Handler>.load(path)
load_call(handler) ==
    LET r == handler_load(handler, file)
    IN  [NoFileCall EXCEPT !.op = "load", !.handler = handler,
                           !.outcome = r.outcome, !.result = r.result]

hdf5_load ==
    /\ flast' = load_call("hdf5")
    /\ UNCHANGED <<cal_result, file>>
    /\ fileFrame

mat_load ==
    /\ flast' = load_call("mat")
    /\ UNCHANGED <<cal_result, file>>
    /\ fileFrame

json_load_file ==
    /\ flast' = load_call("json")
    /\ UNCHANGED <<cal_result, file>>
    /\ fileFrame

\* CalibrationFile.load(path) without a format
calibration_file_load ==
    \E suffix \in Suffixes :
        LET r == CalibrationFile_load(suffix, file)
        IN  /\ flast' = [NoFileCall EXCEPT !.op = "CalibrationFile.load",
                                           !.handler = r.handler, !.suffix = suffix,
                                           !.outcome = r.loaded.outcome,
                                           !.result = r.loaded.result]
            /\ UNCHANGED <<cal_result, file>>
            /\ fileFrame

\* the file a handler writes for a result
handler_save(handler, result) ==
    CASE handler = "hdf5" -> HDF5Format_save(result)
      [] handler = "mat" -> MATFormat_save(result)
      [] handler = "json" -> JSONFormat_save(result)

\* CalibrationFile.save(path, result, format) on a fresh path
calibration_file_save ==
    \E suffix \in Suffixes, format \in {None} \cup {Some(h) : h \in {"hdf5", "mat", "json"}} :
        LET r == CalibrationFile_save(suffix, format)
        IN  /\ file = None
            /\ cal_result # None
            /\ file' = Some(handler_save(r.handler, cal_result[1]))
            /\ flast' = [NoFileCall EXCEPT !.op = "CalibrationFile.save",
                                           !.handler = r.handler, !.suffix = suffix,
                                           !.outcome = "ok", !.format = format,
                                           !.written = r.written,
                                           !.returned = r.returned]
            /\ UNCHANGED cal_result
            /\ fileFrame


-----------------------------------------------------------------------------
(* Specifications *)

Init == CalibInit /\ TransformIdle /\ LegacyIdle /\ PoseIdle /\ BatchIdle /\ GridIdle /\ FileIdle /\ AppIdle

Next == add_image \/ clear \/ Calibrate

Spec == Init /\ [][Next]_vars

InitTransform == TransformInit /\ CalibIdle /\ LegacyIdle /\ PoseIdle /\ BatchIdle /\ GridIdle /\ FileIdle /\ AppIdle

NextTransform ==
    \/ set_extrinsic
    \/ camera_to_world
    \/ world_to_camera
    \/ pixel_to_world
    \/ world_to_pixel
    \/ get_world_xy
    \/ get_pixel_uv
    \/ create_pixel_to_world_map

SpecTransform == InitTransform /\ [][NextTransform]_vars

InitLegacy == LegacyInit /\ CalibIdle /\ TransformIdle /\ PoseIdle /\ BatchIdle /\ GridIdle /\ FileIdle /\ AppIdle

NextLegacy ==
    \/ import_image
    \/ legacy_detect_corners
    \/ generate
    \/ load_coords_to_points
    \/ add_point
    \/ clear_points
    \/ estimate_extrinsic

SpecLegacy == InitLegacy /\ [][NextLegacy]_vars

InitPose == PoseInit /\ AppCalibrated /\ CalibIdle /\ TransformIdle /\ LegacyIdle /\ BatchIdle /\ GridIdle /\ FileIdle

NextPose ==
    \/ on_calibration_finished
    \/ on_corner_single_result
    \/ on_point_added
    \/ on_ext_world_coord_changed
    \/ on_add_point
    \/ on_clear_points
    \/ on_load_corners_to_points
    \/ on_calibrate_extrinsic

SpecPose == InitPose /\ [][NextPose]_vars

InitApp == AppWithPoints /\ CalibIdle /\ TransformIdle /\ LegacyIdle /\ BatchIdle /\ GridIdle /\ FileIdle

NextApp ==
    \/ on_calibration_finished
    \/ on_open
    \/ on_calibrate_extrinsic
    \/ on_pixel_to_world
    \/ on_world_to_pixel
    \/ move_camera

SpecApp == InitApp /\ [][NextApp]_vars

InitWorkers == WorkersInit /\ CalibIdle /\ TransformIdle /\ LegacyIdle /\ BatchIdle /\ GridIdle /\ FileIdle

NextWorkers ==
    \/ on_detect_corners
    \/ on_calibrate
    \/ corner_worker_run
    \/ calib_worker_run
    \/ on_corner_finished
    \/ on_corner_error
    \/ on_calibration_finished
    \/ on_calib_error

SpecWorkers == InitWorkers /\ [][NextWorkers]_vars

InitGrid == GridInit /\ CalibIdle /\ TransformIdle /\ PoseIdle /\ BatchIdle /\ FileIdle /\ AppIdle

NextGrid ==
    \/ generate_grid
    \/ load_coords_to_points

SpecGrid == InitGrid /\ [][NextGrid]_vars

InitFile == FileInit /\ CalibIdle /\ TransformIdle /\ LegacyIdle /\ PoseIdle /\ BatchIdle /\ GridIdle /\ AppIdle

NextFile ==
    \/ hdf5_save
    \/ mat_save
    \/ json_save
    \/ foreign_file
    \/ hdf5_load
    \/ mat_load
    \/ json_load_file
    \/ calibration_file_load
    \/ calibration_file_save

SpecFile == InitFile /\ [][NextFile]_vars

InitBatch == BatchInit /\ CalibInit /\ TransformIdle /\ LegacyIdle /\ PoseIdle /\ GridIdle /\ FileIdle /\ AppIdle

NextBatch ==
    \/ DetectBatch
    \/ add_images
    \/ cw_init
    \/ cw_cancel
    \/ cw_start
    \/ cw_run_next
    \/ cw_run_detect
    \/ cw_run_finish
    \/ kw_init
    \/ kw_cancel
    \/ kw_start
    \/ kw_run_next
    \/ kw_run_add_image
    \/ kw_run_check
    \/ kw_run_gate
    \/ kw_calibrate_progress
    \/ kw_calibrate_solver
    \/ kw_run_emit

SpecBatch == InitBatch /\ [][NextBatch]_vars

-----------------------------------------------------------------------------
(* Claims about the IntrinsicCalibrator and the CornerDetector (under Spec) *)

\* C1: calibrate() with fewer than 3 accepted pairs raises
\* InsufficientImagesError, and it does so before cv2.calibrateCamera is
\* invoked and before any progress callback is made.
C1_MinimumImageGate ==
    (last.op = "calibrate" /\ last.pairsBefore < 3)
        => /\ last.raised = "InsufficientImagesError"
           /\ last.solver = None
           /\ last.progress = <<>>
           /\ last.result = None

\* two accepted images and one failed one, then calibrate(cb) raised
C1_Witness ==
    /\ last.op = "calibrate" /\ last.cb
    /\ last.pairsBefore = 2 /\ Len(detection_results) = 3
    /\ last.raised = "InsufficientImagesError"

\* C2: can_calibrate is true exactly when at least 3 detections succeeded
\* since construction or the last clear(); failed detections never count.
C2_CanCalibrateIffThreeSuccesses ==
    can_calibrate(image_points) <=> (okSinceClear >= 3)

\* 2 successful and 1 failed add_image: can_calibrate is False
C2_Witness ==
    /\ okSinceClear = 2 /\ Len(detection_results) = 3
    /\ ~can_calibrate(image_points)

\* C9: detect returns success=True only when the primitive reports found and
\* returns exactly rows*cols points, and then the corners are those points in
\* order; otherwise success=False with corners=None, and add_image stores no
\* pair for it.
C9_CornerCountValidation ==
    last.op = "add_image" =>
        LET r == last.detection[1]
            p == last.prim[1]
        IN  /\ r.success =>
                  /\ p.loaded /\ p.found /\ p.raw # None
                  /\ Len(p.raw[1]) = config.rows * config.cols
                  /\ r.corners # None
                  /\ Len(r.corners[1]) = Len(p.raw[1])
                  /\ \A k \in 1..Len(p.raw[1]) :
                        r.corners[1][k].idx = p.raw[1][k].idx
                  /\ Len(image_points) = last.pairsBefore + 1
            /\ ~r.success =>
                  /\ r.corners = None
                  /\ Len(image_points) = last.pairsBefore
                  /\ Len(object_points) = last.pairsBefore

\* the primitive reported found with one point too many: rejected, not stored
C9_Witness ==
    /\ last.op = "add_image"
    /\ last.prim[1].loaded /\ last.prim[1].found /\ last.prim[1].raw # None
    /\ Len(last.prim[1].raw[1]) = config.rows * config.cols + 1
    /\ ~last.detection[1].success
    /\ last.pairsBefore = 1 /\ Len(image_points) = 1

\* C10: the accepted-pair list and the cached image size change only through
\* a successful add_image (which appends exactly one pair) or clear(); a
\* failed add_image does not raise and leaves them unchanged, and calibrate()
\* leaves them unchanged whether it returns or raises.
C10_Frame ==
    [][ /\ last'.op = "calibrate"
            => UNCHANGED <<image_points, object_points, image_size>>
        /\ (last'.op = "add_image" /\ ~last'.detection[1].success)
            => /\ UNCHANGED <<image_points, object_points, image_size>>
               /\ last'.raised = ""
        /\ (image_points' # image_points \/ image_size' # image_size
                \/ object_points' # object_points)
            => \/ last'.op = "clear"
               \/ /\ last'.op = "add_image" /\ last'.detection[1].success
                  /\ image_points'
                        = Append(image_points, last'.detection[1].corners)
                  /\ Len(object_points') = Len(object_points) + 1
      ]_vars

\* a failed add_image and a raising calibrate() happened with pairs stored
C10_Witness ==
    /\ last.op = "calibrate" /\ last.raised = "cv2.error"
    /\ Len(image_points) = 3 /\ Len(detection_results) = 4
    /\ image_size # None

\* C11: after clear(), whatever preceded it, the calibrator holds no pairs,
\* no cached image size and no detection results, so can_calibrate is false;
\* a calibrate() that follows at once raises InsufficientImagesError, and
\* images added after the clear are counted from zero.
C11_ClearResets ==
    [][ /\ last'.op = "clear"
            => /\ image_points' = <<>> /\ object_points' = <<>>
               /\ image_size' = None /\ detection_results' = <<>>
               /\ ~can_calibrate(image_points')
        /\ (last.op = "clear" /\ last'.op = "calibrate")
            => /\ last'.raised = "InsufficientImagesError"
               /\ last'.solver = None /\ last'.result = None
        /\ (last.op = "clear" /\ last'.op = "add_image")
            => /\ Len(detection_results') = 1
               /\ num_valid_images(image_points')
                     = IF last'.detection[1].success THEN 1 ELSE 0
               /\ image_size' = IF last'.detection[1].success
                                THEN Some(last'.detection[1].image_size)
                                ELSE None
      ]_vars

\* clear() was called on a calibrator that held at least three pairs
C11_Witness ==
    /\ last.op = "clear" /\ last.pairsBefore >= 3
    /\ image_points = <<>> /\ image_size = None /\ detection_results = <<>>

-----------------------------------------------------------------------------
(* Claims about the CoordinateTransformer (under SpecTransform) *)

WorldOps == {"camera_to_world", "world_to_camera", "pixel_to_world",
             "world_to_pixel", "get_world_xy", "get_pixel_uv",
             "create_pixel_to_world_map"}

\* C3: with no extrinsic set, every world-dependent operation fails with the
\* ValueError of _check_extrinsic, returns nothing and leaves the transformer
\* unchanged; once an extrinsic is set the same calls return a result.
C3_MissingExtrinsicFailsFast ==
    /\ [](tlast.op \in WorldOps =>
            IF tlast.had_extrinsic
            THEN tlast.raised = "" /\ tlast.output # None
            ELSE tlast.raised = "ValueError" /\ tlast.output = None)
    /\ [][tlast'.op \in WorldOps
            => UNCHANGED <<intrinsic, extrinsic, R_, R_inv, t_>>]_vars

\* create_pixel_to_world_map was refused on a transformer built without pose
C3_Witness ==
    /\ tlast.op = "create_pixel_to_world_map"
    /\ ~tlast.had_extrinsic /\ extrinsic = None
    /\ tlast.raised = "ValueError"

\* the world-frame ray through the pixel of the last pixel_to_world call has
\* a zero z-component
LastRayParallel ==
    /\ tlast.op \in {"pixel_to_world", "get_world_xy"}
    /\ tlast.had_extrinsic
    /\ RayWorld(R_inv[1], pixel_to_normalized(intrinsic, tlast.input[1]))[3] = Q(0)

\* C4: pixel_to_world surfaces a domain error for a pixel whose world-frame
\* ray is parallel to the plane Z = z_world, instead of returning an infinite
\* or undefined coordinate.
C4_ParallelRayIsDomainError ==
    (tlast.op = "pixel_to_world" /\ LastRayParallel)
        => (tlast.raised # "" /\ tlast.output = None)

\* what the code does there: it returns, with a coordinate that is not finite
C4_ParallelRayReturnsNonFinite ==
    (tlast.op = "pixel_to_world" /\ LastRayParallel)
        => (tlast.raised = "" /\ tlast.output # None
            /\ ~VecFinite(tlast.output[1]))

\* C5: for a zero-distortion intrinsic, a world point W in front of the camera
\* whose viewing ray is not parallel to the plane Z = W.z satisfies
\* pixel_to_world(world_to_pixel(W), z_world = W.z) = W.
C5_PixelWorldRoundTrip ==
    ( /\ tlast.op = "pixel_to_world"
      /\ tlast.from_world # None
      /\ tlast.z = Some(tlast.from_world[1][3])
      /\ world_to_camera_value(R_[1], t_[1], tlast.from_world[1])[3][1] > 0
      /\ ~LastRayParallel )
        => (tlast.raised = "" /\ tlast.output = tlast.from_world)

\* a round trip through the camera tilted about X (cos 3/5, sin 4/5), for a
\* point off the plane Z = 0 and off the optical axis
C5_Witness ==
    /\ tlast.op = "pixel_to_world"
    /\ tlast.from_world = Some(IntVec(<<1, 1, 1>>))
    /\ tlast.z = Some(Q(1))
    /\ R_ # None /\ R_[1][2][2] = <<3, 5>>
    /\ ~LastRayParallel
    /\ tlast.output = tlast.from_world
    /\ ~(tlast.input[1][1][2] = 1 /\ tlast.input[1][2][2] = 1)

-----------------------------------------------------------------------------
(* Claims checked under SpecLegacy and SpecPose *)

\* C6: a pose solve is refused before the solver exactly when fewer points
\* are offered than the selected algorithm needs: 3 for P3P and AP3P, 4 for
\* the other families.  Stated for estimate_extrinsic of the legacy tool,
\* whose gate is 4 for every family: P3P with three points is refused.
C6_LegacyMinPointGate ==
    llast.op = "estimate_extrinsic" =>
        LET min_points == IF llast.algo \in {"P3P", "AP3P"} THEN 3 ELSE 4
        IN  (llast.solver = None) <=> (llast.n < min_points)

\* the same gate in the points branch of MainWindow._on_calibrate_extrinsic,
\* where it does hold
C6_MainWindowMinPointGate ==
    (plast.op = "on_calibrate_extrinsic" /\ plast.mode = "points"
        /\ plast.message # "no intrinsic") =>
        LET min_points == IF plast.algo \in {"P3P", "AP3P"} THEN 3 ELSE 4
        IN  (plast.solver = None) <=> (plast.n < min_points)

\* C7: every pose solve hands the solver the flag of the algorithm selected,
\* from points and from checkerboard corners alike.  The corner branch of
\* MainWindow always solves with SOLVEPNP_ITERATIVE.
C7_SolverGetsSelectedFlag ==
    (plast.op = "on_calibrate_extrinsic" /\ plast.solver # None) =>
        plast.solver[1].flags = SolvePnPFlag(plast.algo)

\* the points branch of MainWindow does pass the selected flag
C7_PointsBranchPassesFlag ==
    (plast.op = "on_calibrate_extrinsic" /\ plast.mode = "points"
        /\ plast.solver # None) =>
        plast.solver[1].flags = SolvePnPFlag(plast.algo)

\* the legacy tool passes the selected flag for every family but IPPE_SQUARE,
\* whose combo text also contains the text of IPPE
C7_LegacyFlagExceptIppeSquare ==
    (llast.op = "estimate_extrinsic" /\ llast.solver # None) =>
        llast.solver[1].flags =
            IF llast.algo = "IPPE_SQUARE" THEN "SOLVEPNP_IPPE"
            ELSE SolvePnPFlag(llast.algo)

\* C8: the solver is only ever called with as many image points as object
\* points.  The corner branch of MainWindow pairs cached corners with object
\* points of the pattern size now in the spin boxes, without comparing counts.
C8_SolverGetsEqualLengths ==
    (plast.op = "on_calibrate_extrinsic" /\ plast.solver # None) =>
        Len(plast.solver[1].object_points) = Len(plast.solver[1].image_points)

\* the pairing operation of the legacy tool refuses unequal counts and
\* otherwise leaves one point per corner
C8_LegacyPairingRefusesMismatch ==
    llast.op = "load_coords_to_points" =>
        /\ (llast.corners # 0 /\ llast.coords # 0 /\ llast.corners # llast.coords)
              => llast.message = "count mismatch"
        /\ llast.message = "loaded" => Len(point_data) = llast.corners

-----------------------------------------------------------------------------
(* Claims checked under SpecBatch *)

\* the events of a kind in a trace
OfKind(events, kinds) == SelectSeq(events, LAMBDA e : e.kind \in kinds)

\* C12: batch detection yields exactly one result per input image, in input
\* order, and a failure on one image never keeps the later images from being
\* processed (detect_batch, add_images, and a CornerDetectionWorker run that
\* did not observe a cancel).
C12_OneResultPerImageInOrder ==
    /\ blast.op \in {"detect_batch", "add_images"}
          => /\ Len(blast.results) = Len(blast.images)
             /\ \A k \in 1..Len(blast.images) :
                   /\ blast.results[k].image_path = k
                   /\ blast.results[k].success = (blast.images[k] = "ok")
    /\ blast.op = "add_images"
          => /\ Len(detection_results) >= Len(blast.results)
             /\ \A k \in 1..Len(blast.results) :
                   detection_results[Len(detection_results) - Len(blast.results) + k]
                      = blast.results[k]
    /\ (cw.pc = "done" /\ cw.observed = "")
          => LET emitted == OfKind(cw.signals, {"single_result"})
             IN  /\ Len(emitted) = cw.total
                 /\ \A k \in 1..cw.total : emitted[k].current = k - 1

\* a batch of three whose first image fails and whose last one succeeds
C12_Witness ==
    /\ blast.op = "add_images" /\ Len(blast.images) = 3
    /\ blast.images[1] = "unreadable" /\ blast.images[2] = "not_found"
    /\ blast.results[3].success

\* the progress reports and completed detections of a run, in order
Reports(events) == OfKind(events, {"progress", "detected"})

\* C13 as claimed: progress is reported after each image: the report that
\* belongs to an image is issued after that image's detection has completed,
\* there is one report per image, and the last report is (total, total).
ReportedAfterEachImage(events, total) ==
    LET E == Reports(events)
    IN  /\ Len(OfKind(E, {"progress"})) = total
        /\ \A m \in 1..Len(E) :
              (E[m].kind = "progress" /\ E[m].image >= 0)
                 => \E d \in 1..(m - 1) :
                       E[d].kind = "detected" /\ E[d].image = E[m].image
        /\ total > 0 => /\ E[Len(E)].kind = "progress"
                        /\ E[Len(E)].current = total /\ E[Len(E)].total = total

C13_ProgressAfterEachImage ==
    /\ (blast.op = "detect_batch" /\ blast.cb)
          => ReportedAfterEachImage(blast.events, Len(blast.images))
    /\ (cw.pc = "done" /\ cw.observed = "")
          => ReportedAfterEachImage(cw.signals, cw.total)

\* C13 as amended: progress is reported before each image and once at the
\* end.  The report (i, total) that names image i is issued immediately
\* before the detection of image i, when exactly i detections have
\* completed; the closing report (total, total) is the last one; a run that
\* made n detections has issued n + 1 reports.  Without a callback nothing
\* is reported.
AnnouncedBeforeEachImage(events, total) ==
    LET E == Reports(events)
    IN  \A m \in 1..Len(E) :
           /\ E[m].kind = "detected"
                 => /\ m > 1 /\ E[m - 1].kind = "progress"
                    /\ E[m - 1].image = E[m].image
           /\ (E[m].kind = "progress" /\ E[m].image >= 0)
                 => /\ E[m].current = E[m].image /\ E[m].total = total
                    /\ E[m].current = Len(OfKind(SubSeq(E, 1, m), {"detected"}))
                    /\ m < Len(E) => E[m + 1].kind = "detected"
           /\ (E[m].kind = "progress" /\ E[m].image < 0)
                 => /\ m = Len(E)
                    /\ E[m].current = total /\ E[m].total = total

ClosedByFinalReport(events, total) ==
    LET E == Reports(events)
    IN  /\ Len(E) > 0 /\ E[Len(E)].kind = "progress"
        /\ E[Len(E)].current = total /\ E[Len(E)].total = total
        /\ Len(OfKind(E, {"progress"})) = Len(OfKind(E, {"detected"})) + 1

C13_ProgressBeforeEachImage ==
    /\ (blast.op \in {"detect_batch", "add_images"} /\ blast.cb)
          => /\ AnnouncedBeforeEachImage(blast.events, Len(blast.images))
             /\ ClosedByFinalReport(blast.events, Len(blast.images))
             /\ Len(OfKind(blast.events, {"detected"})) = Len(blast.images)
    /\ (blast.op \in {"detect_batch", "add_images"} /\ ~blast.cb)
          => OfKind(blast.events, {"progress"}) = <<>>
    /\ AnnouncedBeforeEachImage(cw.signals, cw.total)
    /\ cw.pc = "done" => ClosedByFinalReport(cw.signals, cw.total)

\* a worker given three images that was cancelled after its first detection
C13_Witness ==
    /\ cw.pc = "done" /\ cw.total = 3 /\ cw.i = 1 /\ cw.observed = "loop"

\* C14: every run of a background worker ends with exactly one terminal
\* signal, finished or error, cancelled runs and runs with fewer than 3
\* valid images included.  A cancelled CalibrationWorker returns silently.
TerminalSignals(w) == OfKind(w.signals, {"finished", "error"})

C14_ExactlyOneTerminalSignal ==
    /\ cw.pc = "done" => Len(TerminalSignals(cw)) = 1
    /\ kw.pc = "done" => Len(TerminalSignals(kw)) = 1

\* what does hold: never two terminal signals; a CornerDetectionWorker run
\* always ends with finished; a CalibrationWorker run ends with one terminal
\* signal if it never read the cancel flag as set, with none if it read it
\* at a cancel test, and without a result if it read it in a callback
C14_TerminalSignalUnlessCancelled ==
    /\ Len(TerminalSignals(cw)) <= 1 /\ Len(TerminalSignals(kw)) <= 1
    /\ cw.pc = "done" => /\ Len(TerminalSignals(cw)) = 1
                         /\ cw.signals[Len(cw.signals)].kind = "finished"
    /\ cw.pc # "done" => TerminalSignals(cw) = <<>>
    /\ kw.pc # "done" => TerminalSignals(kw) = <<>>
    /\ (kw.pc = "done" /\ kw.observed = "")
          => /\ Len(TerminalSignals(kw)) = 1
             /\ kw.signals[Len(kw.signals)].kind \in {"finished", "error"}
    /\ (kw.pc = "done" /\ kw.observed \in {"loop", "check", "emit"})
          => TerminalSignals(kw) = <<>>
    /\ (kw.pc = "done" /\ kw.observed = "callback")
          => OfKind(kw.signals, {"finished"}) = <<>>

\* a step of run() that enters a detection, calls the solver, emits a result
StartsDetection(w, wn) == wn.pc \in {"detect", "add"} /\ w.pc = "loop"
StartsSolver(w, wn) ==
    Len(OfKind(wn.signals, {"solver"})) > Len(OfKind(w.signals, {"solver"}))
EmitsResult(w, wn) ==
    Len(OfKind(wn.signals, {"finished"})) > Len(OfKind(w.signals, {"finished"}))

\* a detection in flight is left only by completing: the next step of run()
\* records its result and moves to the next image, and cancel() in between
\* changes nothing but the flag
InFlightRunsToCompletion(w, wn) ==
    (w.pc \in {"detect", "add"} /\ wn # w)
       => \/ wn = [w EXCEPT !.is_cancelled = TRUE]
          \/ /\ wn.pc = "loop" /\ wn.i = w.i + 1
             /\ Len(OfKind(wn.signals, {"detected"}))
                   = Len(OfKind(w.signals, {"detected"})) + 1

\* C15 as claimed: once a worker has observed cancel() it starts no further
\* image detection, a cancelled CalibrationWorker never starts the solver
\* afterwards and never emits a calibration result, and a detection in
\* flight when cancel() is called runs to completion.
C15_CancelStopsFurtherWork ==
    [][ /\ cw.observed # "" => ~StartsDetection(cw, cw')
        /\ kw.observed # "" => /\ ~StartsDetection(kw, kw')
                               /\ ~StartsSolver(kw, kw')
                               /\ ~EmitsResult(kw, kw')
        /\ InFlightRunsToCompletion(cw, cw')
        /\ InFlightRunsToCompletion(kw, kw')
      ]_vars

\* C15 as amended: the solver is kept from starting only by a cancel that
\* run() observes at one of its two cancel tests (the head of the image loop,
\* the test behind the loop): run() then returns at once.  A cancel that the
\* CalibrationWorker first observes later, in a progress callback of
\* calibrate(), does not stop the solver; it suppresses the progress reports
\* and the calibration result.  The rest is as claimed.
C15_CancelStopsAtCancelTests ==
    [][ /\ cw.observed # "" => ~StartsDetection(cw, cw')
        /\ kw.observed # "" => /\ ~StartsDetection(kw, kw')
                               /\ ~EmitsResult(kw, kw')
                               /\ OfKind(kw'.signals, {"progress"})
                                     = OfKind(kw.signals, {"progress"})
        /\ kw.observed \in {"loop", "check"}
              => /\ kw.pc = "done" /\ kw'.pc = "done"
                 /\ kw'.signals = kw.signals
                 /\ OfKind(kw.signals, {"solver"}) = <<>>
        /\ InFlightRunsToCompletion(cw, cw')
        /\ InFlightRunsToCompletion(kw, kw')
      ]_vars

\* three valid images were loaded, cancel() came during the last one and
\* was observed at the test behind the loop
C15_Witness ==
    /\ kw.pc = "done" /\ kw.observed = "check"
    /\ kw.total = 3 /\ kw.success_count = 3
    /\ OfKind(kw.signals, {"solver", "finished", "error"}) = <<>>

-----------------------------------------------------------------------------
(* Claims checked under SpecGrid *)

GridCols == grid_call.grid[1]
GridRows == grid_call.grid[2]
GridUx == get_grid_direction_coeff(grid_call.robot_x_dir)
GridUy == get_grid_direction_coeff(grid_call.robot_y_dir)
GridDet == GridUx[1] * GridUy[2] - GridUy[1] * GridUx[2]

\* both physical axes lie along the same grid axis
AlongSameGridAxis ==
    LET columnwise == {"image_x_positive", "image_x_negative"}
    IN  (grid_call.robot_x_dir \in columnwise) = (grid_call.robot_y_dir \in columnwise)

\* rows and columns are positive and the origin index is one of the points
GridWellFormed ==
    /\ GridCols >= 1
    /\ GridRows >= 1
    /\ grid_call.robot_point \in 1..(GridCols * GridRows)

\* C16: whenever the two physical axes are mapped to parallel grid directions,
\* i.e. whenever det = ux_i*uy_j - uy_i*ux_j is zero, the generation ends with
\* an error box, appends no coordinate and performs no division by det; on a
\* well-formed grid the error is the parallel-axes error and the list is empty.
C16_ParallelAxesRefused ==
    /\ AlongSameGridAxis <=> (GridDet = 0)
    /\ (grid_call.returned /\ GridDet = 0) =>
          /\ grid_call.error # ""
          /\ grid_call.emitted = 0
          /\ grid_call.divided_by = {}
          /\ GridWellFormed =>
                /\ grid_call.error = "axes parallel"
                /\ generated_world_coords = Some(<<>>)

C16_Witness ==
    /\ grid_call.returned
    /\ GridWellFormed
    /\ grid_call.robot_x_dir = "image_x_positive"
    /\ grid_call.robot_y_dir = "image_x_negative"
    /\ grid_call.error = "axes parallel"

\* the physical offsets (a, b) a grid point can have
Offsets == (0 - MaxCols - MaxRows)..(MaxCols + MaxRows)

\* (a, b) solves (i - i0, j - j0) = ux*a + uy*b for the origin index p
SolvesAxisSystem(a, b, i, j) ==
    LET i0 == (grid_call.robot_point - 1) % GridCols
        j0 == (grid_call.robot_point - 1) \div GridCols
    IN  /\ i - i0 = GridUx[1] * a + GridUy[1] * b
        /\ j - j0 = GridUx[2] * a + GridUy[2] * b

\* <<x, y>> is origin + (a, b) * spacing for the one solution (a, b)
IsCoordinateOf(x, y, i, j) ==
    /\ \E a, b \in Offsets : SolvesAxisSystem(a, b, i, j)
    /\ \A a, b \in Offsets :
          SolvesAxisSystem(a, b, i, j) =>
              /\ x = grid_call.origin[1] + a * grid_call.spacing
              /\ y = grid_call.origin[2] + b * grid_call.spacing

\* the entry generated with point id n
EntryWithId(n) ==
    LET coords == generated_world_coords[1]
    IN  coords[CHOOSE k \in 1..Len(coords) : coords[k][1] = n]

\* C17: for every well-formed grid, origin index p, spacing, origin offset and
\* non-parallel pair of directions the generation succeeds, and the coordinate
\* generated for grid point (i, j) is origin + (a, b)*spacing with (a, b) the
\* unique solution of (i - i0, j - j0) = ux*a + uy*b; point p is the origin
\* offset; on the 3x3 grid with p = 5, spacing 10, origin (0, 0), +X = +column,
\* +Y = +row, point 1 is (-10, -10) and point 9 is (10, 10).
C17_CoordinatesSolveAxisSystem ==
    (grid_call.returned /\ GridWellFormed /\ GridDet # 0) =>
        /\ grid_call.error = ""
        /\ generated_world_coords # None
        /\ \A i \in 0..(GridCols - 1), j \in 0..(GridRows - 1) :
              LET n == j * GridCols + i + 1
              IN  /\ \E k \in 1..Len(generated_world_coords[1]) :
                        generated_world_coords[1][k][1] = n
                  /\ IsCoordinateOf(EntryWithId(n)[2], EntryWithId(n)[3], i, j)
        /\ EntryWithId(grid_call.robot_point) =
              <<grid_call.robot_point, grid_call.origin[1], grid_call.origin[2]>>
        /\ ( /\ grid_call.grid = <<3, 3>>
             /\ grid_call.robot_point = 5
             /\ grid_call.spacing = 10
             /\ grid_call.origin = <<0, 0>>
             /\ grid_call.robot_x_dir = "image_x_positive"
             /\ grid_call.robot_y_dir = "image_y_positive" ) =>
                /\ EntryWithId(1) = <<1, -10, -10>>
                /\ EntryWithId(9) = <<9, 10, 10>>

C17_Witness ==
    /\ grid_call.returned
    /\ grid_call.grid = <<3, 3>>
    /\ grid_call.robot_point = 5
    /\ grid_call.spacing = 10
    /\ grid_call.robot_x_dir = "image_x_positive"
    /\ grid_call.robot_y_dir = "image_y_positive"
    /\ grid_call.error = ""
    /\ Len(generated_world_coords[1]) = 9

\* C18: a successful generation leaves exactly rows*cols entries with the ids
\* 1..rows*cols in order; entry k (0-based) is the coordinate of grid point
\* (k mod cols, k div cols); and load_coords_to_points pairs entry k with
\* corner k of the detector output.
C18_RowMajorIndexAligned ==
    /\ (grid_call.returned /\ grid_call.error = "") =>
          LET coords == generated_world_coords[1]
          IN  /\ Len(coords) = GridRows * GridCols
              /\ \A k \in 0..(Len(coords) - 1) :
                    /\ coords[k + 1][1] = k + 1
                    /\ IsCoordinateOf(coords[k + 1][2], coords[k + 1][3],
                                      k % GridCols, k \div GridCols)
    /\ (llast.op = "load_coords_to_points" /\ llast.message = "loaded") =>
          LET coords == generated_world_coords[1]
              corners == detected_corners[1]
          IN  /\ Len(point_data) = Len(coords)
              /\ Len(point_data) = Len(corners)
              /\ \A k \in 1..Len(point_data) :
                    /\ point_data[k].id = coords[k][1]
                    /\ point_data[k].world = <<coords[k][2], coords[k][3]>>
                    /\ point_data[k].image = corners[k]

C18_Witness ==
    /\ grid_call.returned
    /\ grid_call.grid = <<2, 2>>
    /\ grid_call.error = ""
    /\ llast.op = "load_coords_to_points"
    /\ llast.message = "loaded"
    /\ Len(point_data) = 4

-----------------------------------------------------------------------------
(* Claims checked under SpecFile *)

\* numeric equality of two typed numbers
SameNumber(x, y) == x.v = y.v

SameOptional(x, y, Same(_, _)) ==
    /\ (x = None) = (y = None)
    /\ x # None /\ y # None => Same(x[1], y[1])

SameExtrinsic(x, y) ==
    /\ x.rotation_vector = y.rotation_vector
    /\ x.translation_vector = y.translation_vector

SameCheckerboard(x, y) ==
    /\ SameNumber(x.rows, y.rows)
    /\ SameNumber(x.cols, y.cols)
    /\ x.square_size_mm = y.square_size_mm

\* the fields of a result, software_version apart
SameButVersion(x, y) ==
    /\ x.intrinsic.camera_matrix = y.intrinsic.camera_matrix
    /\ x.intrinsic.distortion_coeffs = y.intrinsic.distortion_coeffs
    /\ SameNumber(x.intrinsic.image_size[1], y.intrinsic.image_size[1])
    /\ SameNumber(x.intrinsic.image_size[2], y.intrinsic.image_size[2])
    /\ x.intrinsic.reprojection_error = y.intrinsic.reprojection_error
    /\ SameOptional(x.extrinsic, y.extrinsic, SameExtrinsic)
    /\ SameOptional(x.checkerboard_config, y.checkerboard_config, SameCheckerboard)
    /\ SameNumber(x.num_images_used, y.num_images_used)
    /\ x.notes = y.notes
    /\ x.timestamp = y.timestamp
    /\ x.per_image_errors = y.per_image_errors

SameResult(x, y) == SameButVersion(x, y) /\ x.software_version = y.software_version

\* a handler has just loaded the file it wrote
LoadedOwnFile ==
    /\ flast.op = "load"
    /\ file # None
    /\ file[1].written_by = flast.handler

\* C19: for each of HDF5, MAT and JSON, loading a file produced by saving a
\* CalibrationResult returns a result equal to the original in every field.
C19_RoundTripLossless ==
    LoadedOwnFile =>
        /\ flast.outcome = "ok"
        /\ SameResult(flast.result[1], cal_result[1])

\* what does hold: the load succeeds and every field is restored, except that
\* an empty software_version comes back from a MAT file as "[]"
C19_RoundTripButEmptyVersionInMat ==
    LoadedOwnFile =>
        /\ flast.outcome = "ok"
        /\ SameButVersion(flast.result[1], cal_result[1])
        /\ IF flast.handler = "mat" /\ cal_result[1].software_version = ""
           THEN flast.result[1].software_version = "[]"
           ELSE flast.result[1].software_version = cal_result[1].software_version

\* the handler's section and camera matrix are where the handler looks for them
Recognises(handler, f) ==
    /\ f.container = handler
    /\ f.doc.intrinsic # None
    /\ f.doc.intrinsic[1].camera_matrix # None
    /\ handler = "mat" => f.doc.intrinsic[1].distortion_coeffs # None

\* the format a suffix names, compared without regard to case
FormatOfSuffix(suffix) ==
    CASE suffix \in {<<".", "h", "5">>, <<".", "H", "5">>, <<".", "h", "d", "f", "5">>} -> "hdf5"
      [] suffix = <<".", "m", "a", "t">> -> "mat"
      [] suffix \in {<<".", "j", "s", "o", "n">>, <<".", "J", "S", "O", "N">>} -> "json"
      [] OTHER -> ""

ProbedExistingFile ==
    /\ flast.op = "CalibrationFile.load"
    /\ file # None

\* C20: CalibrationFile.load without a format takes the handler the extension
\* names (h5, hdf5, mat, json, in any case); with another or no extension it
\* probes the content and takes a handler that recognises it; if no handler
\* recognises the content it raises FileFormatError and returns no result.
C20_HandlerByExtensionElseByContent ==
    ProbedExistingFile =>
        IF FormatOfSuffix(flast.suffix) # ""
        THEN flast.handler = FormatOfSuffix(flast.suffix)
        ELSE IF \E h \in {"hdf5", "mat", "json"} : Recognises(h, file[1])
        THEN flast.handler # "" /\ Recognises(flast.handler, file[1])
        ELSE /\ flast.handler = ""
             /\ flast.outcome = "FileFormatError"
             /\ flast.result = None

\* what does hold: the same, except that content no handler recognises ends
\* in FileFormatError only if the JSON probe can read it as UTF-8 text that
\* is no JSON or is a JSON object; other bytes end in UnicodeDecodeError and
\* a JSON number in TypeError
C20_HandlerByExtensionElseProbeMayRaise ==
    ProbedExistingFile =>
        IF FormatOfSuffix(flast.suffix) # ""
        THEN flast.handler = FormatOfSuffix(flast.suffix)
        ELSE IF \E h \in {"hdf5", "mat", "json"} : Recognises(h, file[1])
        THEN flast.handler # "" /\ Recognises(flast.handler, file[1])
        ELSE /\ flast.handler = ""
             /\ flast.result = None
             /\ flast.outcome =
                   CASE file[1].container \in {"text", "json"} -> "FileFormatError"
                     [] file[1].container = "json_number" -> "TypeError"
                     [] OTHER -> "UnicodeDecodeError"

\* the file at the path is of the handler's own container and has no camera
\* matrix where the handler looks for it
LacksCameraMatrix(f) ==
    \/ f.doc.intrinsic = None
    \/ f.doc.intrinsic[1].camera_matrix = None

LoadedFileLackingCameraMatrix ==
    /\ flast.op = "load"
    /\ file # None
    /\ file[1].container = flast.handler
    /\ LacksCameraMatrix(file[1])

\* C21 (as stated): in every format, loading a file without the camera matrix
\* at its expected location, the whole intrinsic section missing or the
\* section there without the matrix, fails with FileFormatError and builds
\* no result from the file
C21_MissingCameraMatrixIsFileFormatError ==
    LoadedFileLackingCameraMatrix =>
        /\ flast.outcome = "FileFormatError"
        /\ flast.result = None

\* C21 (what the code does): such a load never returns a result; it raises
\* FileFormatError, except that HDF5Format.load raises KeyError when the
\* intrinsic group is there without the camera_matrix dataset
C21_MissingCameraMatrixRaises ==
    LoadedFileLackingCameraMatrix =>
        /\ flast.result = None
        /\ IF flast.handler = "hdf5" /\ file[1].doc.intrinsic # None
           THEN flast.outcome = "KeyError"
           ELSE flast.outcome = "FileFormatError"

-----------------------------------------------------------------------------
(* Further claims checked under Spec *)

\* the successful detections since __init__ or the last clear(), in order
SuccessesSinceClear == SelectSeq(detection_results, LAMBDA r : r.success)

\* C22: the image size handed to the calibration solver is the size of the
\* first image successfully detected since construction or the last clear();
\* a later successful image of another size is accepted without error and
\* leaves the cached size alone, and a failed detection never sets it
C22_SolverGetsFirstSuccessfulSize ==
    /\ image_size = IF SuccessesSinceClear = <<>> THEN None
                    ELSE Some(SuccessesSinceClear[1].image_size)
    /\ Len(image_points) = Len(SuccessesSinceClear)
    /\ last.op = "add_image" => last.raised = ""
    /\ (last.op = "calibrate" /\ last.solver # None) =>
           /\ SuccessesSinceClear # <<>>
           /\ last.solver[1].image_size = SuccessesSinceClear[1].image_size
           /\ Len(last.solver[1].image_points) = Len(SuccessesSinceClear)

\* the solver runs on pairs whose first image failed (and has another size
\* than the one cached) and whose later accepted images differ in size
C22_Witness ==
    /\ last.op = "calibrate"
    /\ last.solver # None
    /\ ~detection_results[1].success
    /\ detection_results[1].image_size # <<0, 0>>
    /\ detection_results[1].image_size # last.solver[1].image_size
    /\ \E k \in 1..Len(SuccessesSinceClear) :
           SuccessesSinceClear[k].image_size # last.solver[1].image_size

\* the image files the accepted pairs were detected in
AcceptedImages ==
    { SuccessesSinceClear[k].image_path : k \in 1..Len(SuccessesSinceClear) }

\* C23 (as stated): the accepted pairs correspond one-to-one to different
\* images: an image that was already accepted adds no second pair, so the
\* same image supplied three times never makes can_calibrate true
C23_PairsFromDifferentImages ==
    /\ Len(image_points) = Cardinality(AcceptedImages)
    /\ can_calibrate(image_points) =>
           Cardinality(AcceptedImages) >= MIN_IMAGES_FOR_CALIBRATION

\* C23 (what the code does): every successful add_image call appends one
\* pair, whether or not the image was accepted before; the k-th pair holds
\* the corners of the k-th successful call
C23_OnePairPerSuccessfulCall ==
    /\ Len(image_points) = Len(SuccessesSinceClear)
    /\ \A k \in 1..Len(image_points) :
           image_points[k] = SuccessesSinceClear[k].corners
    /\ (last.op = "add_image" /\ last.detection[1].success) =>
           Len(image_points) = last.pairsBefore + 1

-----------------------------------------------------------------------------
(* Claims checked under SpecApp *)

\* a step of _on_calibrate_extrinsic in which the pose solver was called and
\* reported failure (success = False) or raised
FailedPoseSolve ==
    /\ plast'.op = "on_calibrate_extrinsic"
    /\ plast'.solver # None
    /\ plast'.outcome # "ok"

\* C24: when the pose solver reports failure, the solve reports an error,
\* creates no CameraExtrinsic and leaves the stored extrinsic result and the
\* coordinate transformer as they were, so that a later conversion is
\* computed with the last successful pose
C24_FailedSolveKeepsLastPose ==
    /\ [][FailedPoseSolve =>
              /\ plast'.message \in {"solvePnP failed", "error"}
              /\ mw_extrinsic_result' = mw_extrinsic_result
              /\ mw_transformer' = mw_transformer]_vars
    /\ [](alast.message = "converted" =>
              /\ mw_extrinsic_result # None
              /\ alast.extrinsic = Some(mw_extrinsic_result[1].extrinsic))

\* the solver has just reported failure at another camera pose than the one
\* of the last successful solve; the stored result and the transformer still
\* hold that earlier pose
C24_Witness ==
    /\ plast.op = "on_calibrate_extrinsic"
    /\ plast.solver # None
    /\ plast.outcome = "failed"
    /\ mw_extrinsic_result # None
    /\ mw_transformer # None
    /\ mw_transformer[1].extrinsic = mw_extrinsic_result[1].extrinsic
    /\ mw_transformer[1].extrinsic # CameraExtrinsicOf(SolvedPose)

-----------------------------------------------------------------------------
(* Further claims checked under SpecTransform *)

\* the rotation, its transpose and the translation the transformer has cached
\* are those of the extrinsic it holds
CachedFromExtrinsic ==
    extrinsic # None =>
        /\ R_ = Some(extrinsic[1].R)
        /\ R_inv = Some(Transpose(extrinsic[1].R))
        /\ t_ = Some(extrinsic[1].t)

\* what the last conversion returned is what the extrinsic held gives
ConvertedWithExtrinsic ==
    tlast.output # None =>
        LET e == extrinsic[1]
            x == tlast.input[1]
        IN  /\ tlast.op = "camera_to_world" =>
                  tlast.output[1] = camera_to_world_value(Transpose(e.R), e.t, x)
            /\ tlast.op = "world_to_camera" =>
                  tlast.output[1] = world_to_camera_value(e.R, e.t, x)
            /\ tlast.op = "pixel_to_world" =>
                  tlast.output[1] =
                      pixel_to_world_value(intrinsic, Transpose(e.R), e.t, x, tlast.z[1])
            /\ tlast.op = "world_to_pixel" =>
                  tlast.output[1] = world_to_pixel_value(intrinsic, e, x)

\* C25: after construction and any sequence of set_extrinsic calls, the
\* rotation matrix, its transpose and the translation used by camera_to_world,
\* world_to_camera and pixel_to_world are those of the most recently set
\* extrinsic, the one world_to_pixel uses too; set_extrinsic never changes
\* the intrinsic held by the transformer
C25_CachedPoseIsLatestExtrinsic ==
    /\ [](CachedFromExtrinsic /\ ConvertedWithExtrinsic)
    /\ [][tlast'.op = "set_extrinsic" =>
              /\ extrinsic' = tlast'.input
              /\ intrinsic' = intrinsic]_vars

\* set_extrinsic has just replaced the extrinsic the transformer held, and
\* the cached rotation and translation are those of the new one
C25_Witness ==
    /\ tlast.op = "set_extrinsic"
    /\ tlast.had_extrinsic
    /\ extrinsic = tlast.input
    /\ R_ = Some(tlast.input[1].R)
    /\ R_inv = Some(Transpose(tlast.input[1].R))
    /\ t_ = Some(tlast.input[1].t)

-----------------------------------------------------------------------------
(* Further claims checked under SpecLegacy *)

\* a step of generate_chessboard_coords that ended in the given error box
GenerationFailedWith(message) ==
    /\ llast'.op = "generate_chessboard_coords"
    /\ llast'.message = message

\* C26 (as stated): a grid generation that fails, because the origin index
\* is outside [1, rows*cols] or because the axis directions are degenerate,
\* leaves the previously generated coordinate list unchanged
C26_FailedGenerationKeepsList ==
    [][(GenerationFailedWith("origin out of range") \/ GenerationFailedWith("axes parallel"))
           => generated_world_coords' = generated_world_coords]_vars

\* C26 (what the code does): an origin index out of range leaves the list
\* unchanged; degenerate axis directions leave it empty, whatever it held
C26_DegenerateAxesEmptyList ==
    [][/\ GenerationFailedWith("origin out of range")
           => generated_world_coords' = generated_world_coords
       /\ GenerationFailedWith("axes parallel")
           => generated_world_coords' = Some(<<>>)]_vars

-----------------------------------------------------------------------------
(* Further claims checked under SpecApp *)

\* C27 (as stated): whenever the window holds a coordinate transformer, the
\* transformer's intrinsic is the intrinsic of the current calibration
\* result, so that after a calibration finished or a file was loaded no
\* conversion is computed with the previous intrinsic
C27_TransformerHoldsCurrentIntrinsic ==
    /\ mw_transformer # None =>
           /\ mw_result # None
           /\ mw_transformer[1].intrinsic = mw_result[1].intrinsic
    /\ alast.message = "converted" =>
           /\ mw_result # None
           /\ alast.intrinsic = Some(mw_result[1].intrinsic)

\* C27 (what the code does): the transformer is built by a successful pose
\* solve, from the result held at that moment, and no other handler assigns
\* it: a result that arrives later does not reach it
C27_TransformerBuiltBySolveOnly ==
    [][IF plast'.op = "on_calibrate_extrinsic" /\ plast'.outcome = "ok"
       THEN mw_transformer' = Some(CoordinateTransformer(mw_result[1].intrinsic,
                                                         CameraExtrinsicOf(SolvedPose)))
       ELSE mw_transformer' = mw_transformer]_vars

-----------------------------------------------------------------------------
(* Claims checked under SpecWorkers *)

\* C28 (as stated): at most one background computation is running at any
\* time, and the window's reference to a running worker is never overwritten:
\* every running worker is the one its reference names
C28_AtMostOneWorkerRunning ==
    /\ Cardinality(mw_threads) <= 1
    /\ \A worker \in mw_threads :
           IF worker.kind = "corner"
           THEN mw_corner_worker = Some(worker)
           ELSE mw_calib_worker = Some(worker)

\* C28 (what the code does): only the panel buttons are disabled while a
\* worker runs; a worker started while they are disabled was started from
\* the toolbar
C28_DisabledButtonsStartNothing ==
    [][(mw_spawned' > mw_spawned /\ ~mw_buttons_enabled) =>
           alast'.via = "toolbar"]_vars

-----------------------------------------------------------------------------
(* Further claims checked under SpecBatch *)

\* the progress signals a run has emitted so far, in order
ProgressSignals == OfKind(kw.signals, {"progress"})

\* current/total of report a is at most current/total of report b
FractionAtMost(a, b) == a.current * b.total <= b.current * a.total

\* C29 (as stated): during one CalibrationWorker run the fraction
\* current/total of successive progress signals never decreases, across the
\* loading phase and the solver phase
C29_ProgressFractionNeverDecreases ==
    \A m \in 1..(Len(ProgressSignals) - 1) :
        FractionAtMost(ProgressSignals[m], ProgressSignals[m + 1])

\* C29 (what the code does): the fraction never decreases inside the loading
\* phase (reports out of total_images + 1) nor inside the solver phase
\* (reports out of 100); the first report of calibrate() is 0 out of 100 and
\* follows total_images out of total_images + 1
C29_ProgressMonotoneWithinPhase ==
    \A m \in 1..(Len(ProgressSignals) - 1) :
        LET a == ProgressSignals[m]
            b == ProgressSignals[m + 1]
        IN  IF (a.message = "calibrate") = (b.message = "calibrate")
            THEN FractionAtMost(a, b)
            ELSE /\ a.message = "computing" /\ b.message = "calibrate"
                 /\ a.current = kw.total /\ a.total = kw.total + 1
                 /\ b.current = 0 /\ b.total = 100

-----------------------------------------------------------------------------
(* Further claims checked under SpecFile *)

SavedThroughCalibrationFile == flast.op = "CalibrationFile.save"

\* C30 (as stated): the path CalibrationFile.save returns is the path of the
\* file that was written, for every path extension (recognised, unrecognised
\* or absent) and every format argument (explicit or auto-detected)
C30_ReturnedPathIsWrittenPath ==
    SavedThroughCalibrationFile => flast.returned = flast.written

\* C30 (what the code does): the file is written under the extension of the
\* handler; the returned path is that path when no format was given and the
\* extension names no format, or when the extension is, up to case, the
\* handler's extension; otherwise (.hdf5, an explicit format with another or
\* no extension) the returned path keeps the caller's extension
C30_ReturnedPathKeepsCallersExtension ==
    SavedThroughCalibrationFile =>
        /\ lower(flast.written) = EXTENSION(flast.handler)
        /\ IF \/ (flast.format = None /\ FormatOfSuffix(flast.suffix) = "")
              \/ lower(flast.suffix) = EXTENSION(flast.handler)
           THEN flast.returned = flast.written
           ELSE flast.returned = flast.suffix /\ flast.returned # flast.written

====
